---- MODULE Spec2Model ----
(***************************************************************************)
(* A model of keep94/attachments: the content addressed, per owner         *)
(* encrypted blob layer (aesFS), the in-memory byte-storage backend        *)
(* (fakeFS) with its read-only and nil variants, the in-memory Metadata    *)
(* Store (fakeStore) with its read-only and failing variants, and the      *)
(* immutable filesystem facade (immutableFS, roImmutableFS).               *)
(*                                                                         *)
(* Go strings are sequences of one-character strings; Go byte slices are   *)
(* records [isNil, data], because the backend tells a nil slice from an    *)
(* empty one.  SHA-256 and AES-CFB are replaced by small functions with    *)
(* the same shape: the digest is collision free on the contents used, the  *)
(* cipher is a feedback stream cipher keyed by (key, iv).                  *)
(***************************************************************************)
EXTENDS Integers, Sequences, FiniteSets, TLC

\* ------------------------------------------------------------------ bounds

\* The in-memory Metadata Store holds at most this many entries.
MaxEntries == 2

\* ------------------------------------------------------------ Go strings

Digits == <<"0", "1", "2", "3", "4", "5", "6", "7", "8", "9">>

HexDigits ==
  <<"0", "1", "2", "3", "4", "5", "6", "7", "8", "9", "a", "b", "c", "d", "e", "f">>

IsDigit(c) == \E i \in 1..10 : Digits[i] = c

DigitVal(c) == (CHOOSE i \in 1..10 : Digits[i] = c) - 1

\* fmt.Sprintf("%d", n)
RECURSIVE Itoa(_)
Itoa(n) ==
  IF n < 0 THEN <<"-">> \o Itoa(0 - n)
  ELSE IF n < 10 THEN <<Digits[n + 1]>>
  ELSE Itoa(n \div 10) \o <<Digits[(n % 10) + 1]>>

RECURSIVE DigitsValue(_, _)
DigitsValue(s, acc) ==
  IF s = <<>> THEN acc ELSE DigitsValue(Tail(s), acc * 10 + DigitVal(Head(s)))

\* A ParseInt that takes only the spelling fmt.Sprintf("%d") gives: no '+'
\* and no leading zeros.
ParseInt_Plain(s) ==
  LET negative == s # <<>> /\ Head(s) = "-"
      body == IF negative THEN Tail(s) ELSE s
      good == /\ body # <<>>
              /\ \A i \in 1..Len(body) : IsDigit(body[i])
              /\ (Len(body) > 1 => Head(body) # "0")
  IN IF ~good THEN [ok |-> FALSE, val |-> 0]
     ELSE [ok |-> TRUE,
           val |-> IF negative THEN 0 - DigitsValue(body, 0)
                   ELSE DigitsValue(body, 0)]

\* strconv.ParseInt(s, 10, 64): an optional sign, then one or more decimal
\* digits.  (The strings used here are far too short to leave the int64
\* range.)
ParseInt(s) ==
  LET signed == s # <<>> /\ Head(s) \in {"+", "-"}
      body == IF signed THEN Tail(s) ELSE s
      good == body # <<>> /\ \A i \in 1..Len(body) : IsDigit(body[i])
  IN IF ~good THEN [ok |-> FALSE, val |-> 0]
     ELSE [ok |-> TRUE,
           val |-> IF signed /\ Head(s) = "-"
                   THEN 0 - DigitsValue(body, 0)
                   ELSE DigitsValue(body, 0)]

\* strings.Split(s, "/")
RECURSIVE SplitFrom(_, _)
SplitFrom(s, cur) ==
  IF s = <<>> THEN <<cur>>
  ELSE IF Head(s) = "/" THEN <<cur>> \o SplitFrom(Tail(s), <<>>)
  ELSE SplitFrom(Tail(s), Append(cur, Head(s)))

Split(s) == SplitFrom(s, <<>>)

\* io/fs.ValidPath: "." itself, or slash separated elements none of which
\* is empty, "." or "..".
ValidPath(name) ==
  \/ name = <<".">>
  \/ LET parts == Split(name)
     IN \A i \in 1..Len(parts) :
          /\ parts[i] # <<>>
          /\ parts[i] # <<".">>
          /\ parts[i] # <<".", ".">>

\* -------------------------------------------------------- Go byte slices

\* A []byte is nil or holds data; a nil slice has length 0.
NilBytes == [isNil |-> TRUE, data |-> <<>>]

MkBytes(d) == [isNil |-> FALSE, data |-> d]

\* bytes.Buffer.Write on the buffer's slice: writing no bytes to a buffer that
\* was never written leaves its slice nil.
BufferWrite(buf, p) ==
  IF buf.isNil /\ Len(p) = 0 THEN buf ELSE MkBytes(buf.data \o p)

\* ---------------------------------------------------------------- errors

NoErr == [Type |-> "nil", Op |-> "", Path |-> <<>>, Err |-> ""]

Error(name) == [Type |-> "error", Op |-> "", Path |-> <<>>, Err |-> name]

ErrNoSuchId == Error("attachments.ErrNoSuchId")
ErrReadOnly == Error("attachments.ErrReadOnly")
ErrNotExist == Error("fs.ErrNotExist")
ErrPermission == Error("fs.ErrPermission")
ErrClosed == Error("os.ErrClosed")
errDatabase == Error("errDatabase")
KeySizeError == Error("aes.KeySizeError")
InvalidByteError == Error("hex.InvalidByteError")
\* The error of a backend writer whose Close fails.
errClose == Error("errClose")

\* &fs.PathError{Op: op, Path: path, Err: fs.ErrNotExist}
PathError(op, path) ==
  [Type |-> "PathError", Op |-> op, Path |-> path, Err |-> "fs.ErrNotExist"]

\* ------------------------------------------------ checksum, hex and cipher

RECURSIVE HashFold(_, _)
HashFold(s, h) ==
  IF s = <<>> THEN h ELSE HashFold(Tail(s), (h * 31 + Head(s) + 1) % 256)

\* checksum(contents): the digest of the contents, a byte string.
checksum(contents) == <<HashFold(contents, 7)>>

\* hex.EncodeToString
RECURSIVE HexEncode(_)
HexEncode(bytes) ==
  IF bytes = <<>> THEN <<>>
  ELSE <<HexDigits[(Head(bytes) \div 16) + 1], HexDigits[(Head(bytes) % 16) + 1]>>
       \o HexEncode(Tail(bytes))

IsHex(c) == \E i \in 1..16 : HexDigits[i] = c

HexVal(c) == (CHOOSE i \in 1..16 : HexDigits[i] = c) - 1

RECURSIVE HexBytes(_)
HexBytes(s) ==
  IF Len(s) < 2 THEN <<>>
  ELSE <<HexVal(s[1]) * 16 + HexVal(s[2])>> \o HexBytes(SubSeq(s, 3, Len(s)))

\* hex.DecodeString: fails on a character that is no hex digit and on an odd
\* length.
HexDecode(s) ==
  IF (\A i \in 1..Len(s) : IsHex(s[i])) /\ Len(s) % 2 = 0
  THEN [err |-> NoErr, bytes |-> HexBytes(s)]
  ELSE [err |-> InvalidByteError, bytes |-> <<>>]

RECURSIVE SumSeq(_)
SumSeq(s) == IF s = <<>> THEN 0 ELSE Head(s) + SumSeq(Tail(s))

\* iv(checksum, owner): derived from the digest and the owner id.
iv(binaryId, owner) == (SumSeq(binaryId) + owner) % 4

\* A key is nil (no encryption) or a byte string of some length; seed stands
\* for its bytes.
NilKey == [isNil |-> TRUE, len |-> 0, seed |-> 0]

MkKey(n, seed) == [isNil |-> FALSE, len |-> n, seed |-> seed]

\* aes.NewCipher accepts keys of 16, 24 and 32 bytes.
NewCipherOK(key) == key.len \in {16, 24, 32}

\* The block function of the cipher under a key.  Two keys give different
\* functions, which may agree on some blocks, and a key stream byte may be
\* zero.
Block(key, x) == (x * ((key.seed \div 3) + 1) + key.seed) % 4

\* cipher.NewCFBEncrypter(block, iv) applied to a whole byte string.
RECURSIVE CFBEncrypt(_, _, _)
CFBEncrypt(key, prev, plain) ==
  IF plain = <<>> THEN <<>>
  ELSE LET c == (Head(plain) + Block(key, prev)) % 4
       IN <<c>> \o CFBEncrypt(key, c, Tail(plain))

\* cipher.NewCFBDecrypter(block, iv) applied to a whole byte string.
RECURSIVE CFBDecrypt(_, _, _)
CFBDecrypt(key, prev, ciph) ==
  IF ciph = <<>> THEN <<>>
  ELSE <<(Head(ciph) + 4 - Block(key, prev)) % 4>>
       \o CFBDecrypt(key, Head(ciph), Tail(ciph))

\* ----------------------------------------------------------- Blob paths

\* idToPath(id, ownerId): panics on an id shorter than two characters.
\* A layout of blobs that leaves the owner out of the path.
idToPath_NoOwner(id, ownerId) ==
  IF Len(id) < 2 THEN [panic |-> TRUE, path |-> <<>>]
  ELSE [panic |-> FALSE, path |-> SubSeq(id, 1, 2) \o <<"/">> \o id]

\* A layout that names a blob by its owner and the first two characters of
\* its id.
idToPath_PrefixOnly(id, ownerId) ==
  IF Len(id) < 2 THEN [panic |-> TRUE, path |-> <<>>]
  ELSE [panic |-> FALSE,
        path |-> Itoa(ownerId) \o <<"/">> \o SubSeq(id, 1, 2)]

idToPath(id, ownerId) ==
  IF Len(id) < 2 THEN [panic |-> TRUE, path |-> <<>>]
  ELSE [panic |-> FALSE,
        path |-> Itoa(ownerId) \o <<"/">> \o SubSeq(id, 1, 2) \o <<"/">> \o id]

\* ------------------------------------------------------------ the state

VARIABLES
  files,    \* fakeFS.files: the blobs of the in-memory backend, by physical path
  store,    \* fakeStore: the Metadata Store's entries, entry i at index i
  written,  \* history: the contents given to each successful facade Write, by id
  stored,   \* history: the <<checksum, owner id>> pairs aesFS.Write returned
  last,     \* the last call made and what it returned
  calls,    \* the Write each goroutine of the concurrent callers is in, and where
  keyBuffer, \* the bytes of the key buffer the caller built owner 2's facade from
  twin      \* a second run of the same calls, compared with this one

vars == <<files, store, written, stored, last, calls, keyBuffer, twin>>

\* ------------------------------------------------- byte-storage backends

\* fakeFS.get: the zero value, a nil slice, for a key the map does not hold.
fakeFS_get(fs, key) == IF key \in DOMAIN fs THEN fs[key] ELSE NilBytes

\* A put that appends to the bytes the file holds.
fakeFS_put_Appends(fs, key, contents) ==
  [k \in DOMAIN fs \cup {key} |->
     IF k # key THEN fs[k]
     ELSE IF key \in DOMAIN fs /\ ~fs[key].isNil
     THEN MkBytes(fs[key].data \o contents.data)
     ELSE contents]

\* fakeFS.put
fakeFS_put(fs, key, contents) ==
  [k \in DOMAIN fs \cup {key} |-> IF k = key THEN contents ELSE fs[k]]

\* fakeFS.Exists
fakeFS_Exists(fs, name) == ~fakeFS_get(fs, name).isNil

\* fakeFS.Open: the reader is over the stored slice.
fakeFS_Open(fs, name) ==
  LET contents == fakeFS_get(fs, name)
  IN IF contents.isNil THEN [err |-> ErrNotExist, data |-> <<>>]
     ELSE [err |-> NoErr, data |-> contents.data]

\* fakeFS.numFiles
numFiles(fs) == Cardinality(DOMAIN fs)

\* fakeFSWriter.Close of a writer whose buffer holds buf: the buffer's bytes
\* (bytes.Buffer.Bytes) are put under the writer's name.
fakeFSWriter_Close(fs, name, buf) == fakeFS_put(fs, name, buf)

\* fakeFS.Write(name): a writer with an empty buffer, bound to the file system.
fakeFS_Write(name) == [buffer |-> NilBytes, name |-> name, open |-> TRUE]

\* fakeFSWriter.Write(p): refused once the writer is closed.
fakeFSWriter_Write(w, p) ==
  IF ~w.open THEN [n |-> 0, err |-> ErrClosed, writer |-> w]
  ELSE [n |-> Len(p), err |-> NoErr,
        writer |-> [w EXCEPT !.buffer = BufferWrite(w.buffer, p)]]

\* fakeFSWriter.Close on a writer: the first Close puts the buffer's bytes and
\* unbinds the writer, a later one does nothing.
Writer_Close(fs, w) ==
  IF w.open
  THEN [files |-> fakeFSWriter_Close(fs, w.name, w.buffer),
        writer |-> [w EXCEPT !.open = FALSE]]
  ELSE [files |-> fs, writer |-> w]

\* readFile(fileSystem, name) on the in-memory backend: open, read all, close.
readFile(fs, name) == fakeFS_Open(fs, name)

\* FS.Exists by kind of backend: the in-memory backend, ReadOnlyFS around it,
\* NilFS.
FS_Exists(kind, fs, name) ==
  IF kind = "nilFS" THEN FALSE ELSE fakeFS_Exists(fs, name)

\* FS.Open by kind of backend.
FS_Open(kind, fs, name) ==
  IF kind = "nilFS" THEN [err |-> ErrNotExist, data |-> <<>>]
  ELSE fakeFS_Open(fs, name)

\* FS.Write by kind of backend: the error of opening a writer.
FS_Write(kind) ==
  CASE kind = "nilFS" -> ErrPermission
    [] kind = "readOnlyFS" -> ErrReadOnly
    [] OTHER -> NoErr

\* The files once FS.Write(name) has returned a writer, by kind of backend:
\* the disk backend (realFS) has made the file with os.Create, empty, or
\* truncated the one that was there; the in-memory backend shows nothing
\* before the Close.
FS_Create(kind, fs, name) ==
  IF kind = "realFS" THEN fakeFS_put(fs, name, MkBytes(<<>>)) ELSE fs

\* The Close of the io.WriteCloser FS.Write gave, by kind of backend, on a
\* writer whose buffer holds buf: the in-memory backend puts the bytes; the
\* disk backend's file holds the bytes written to it, none included; a
\* backend whose Close fails (closeErrorFS) reports its error and makes
\* nothing visible.
FS_Close(kind, fs, name, buf) ==
  CASE kind = "closeErrorFS" -> [err |-> errClose, files |-> fs]
    [] kind = "realFS" -> [err |-> NoErr, files |-> fakeFS_put(fs, name, MkBytes(buf.data))]
    [] OTHER -> [err |-> NoErr, files |-> fakeFSWriter_Close(fs, name, buf)]

\* writeFile(fileSystem, name, contents): open a writer, write the contents,
\* close it, returning the error of the Close.
writeFile(kind, fs, name, contents) ==
  IF FS_Write(kind) # NoErr THEN [err |-> FS_Write(kind), files |-> fs]
  ELSE FS_Close(kind, FS_Create(kind, fs, name), name,
                BufferWrite(NilBytes, contents))

\* The backend streams writeFile opens, and those of them closed when it
\* returns.
writeFile_Streams(kind) ==
  IF FS_Write(kind) # NoErr THEN [opened |-> 0, closed |-> 0]
  ELSE [opened |-> 1, closed |-> 1]

\* ------------------------------------------------ Encrypted Content Store

\* A writeEncrypted that drops the error of opening the writer.
writeEncrypted_DropsError(a, fs, name, binaryId, contents) ==
  [err |-> NoErr, files |-> fs]

\* A writeEncrypted that stores the contents as they are given.
writeEncrypted_Plain(a, fs, name, binaryId, contents) ==
  IF FS_Write(a.FileSystem) # NoErr
  THEN [err |-> FS_Write(a.FileSystem), files |-> fs]
  ELSE IF ~NewCipherOK(a.Owner.Key) THEN [err |-> KeySizeError, files |-> fs]
  ELSE [err |-> NoErr,
        files |-> fakeFSWriter_Close(fs, name, BufferWrite(NilBytes, contents))]

\* aesFS.writeEncrypted.  The writer is opened before the cipher is built, so
\* what opening it did to the backend stays when aes.NewCipher refuses the
\* key.  io.Copy from a bytes.Reader makes no Write call for empty contents;
\* the deferred Close runs once the cipher is built, and what it returns is
\* dropped: the error returned is io.Copy's.
writeEncrypted(a, fs, name, binaryId, contents) ==
  IF FS_Write(a.FileSystem) # NoErr
  THEN [err |-> FS_Write(a.FileSystem), files |-> fs]
  ELSE IF ~NewCipherOK(a.Owner.Key)
  THEN [err |-> KeySizeError, files |-> FS_Create(a.FileSystem, fs, name)]
  ELSE LET c == CFBEncrypt(a.Owner.Key, iv(binaryId, a.Owner.Id), contents)
           buf == IF contents = <<>> THEN NilBytes ELSE BufferWrite(NilBytes, c)
       IN [err |-> NoErr,
           files |-> FS_Close(a.FileSystem, FS_Create(a.FileSystem, fs, name),
                              name, buf).files]

\* The backend streams writeEncrypted opens, and those of them closed when it
\* returns: the writer is open before the cipher is built, and the Close is
\* deferred only after.
writeEncrypted_Streams(a) ==
  IF FS_Write(a.FileSystem) # NoErr THEN [opened |-> 0, closed |-> 0]
  ELSE IF ~NewCipherOK(a.Owner.Key) THEN [opened |-> 1, closed |-> 0]
  ELSE [opened |-> 1, closed |-> 1]

\* A Write that does not look for the blob before it writes.
aesFS_Write_AlwaysWrites(a, fs, contents) ==
  LET binaryId == checksum(contents)
      id == HexEncode(binaryId)
      name == idToPath(id, a.Owner.Id).path
      w == IF a.Owner.Key.isNil THEN writeFile(a.FileSystem, fs, name, contents)
           ELSE writeEncrypted(a, fs, name, binaryId, contents)
  IN IF w.err # NoErr THEN [id |-> <<>>, err |-> w.err, files |-> w.files]
     ELSE [id |-> id, err |-> NoErr, files |-> w.files]

\* An aesFS.Write that takes the blob of any owner as its own.
aesFS_Write_SharedDedup(a, fs, contents) ==
  LET binaryId == checksum(contents)
      id == HexEncode(binaryId)
      name == idToPath(id, a.Owner.Id).path
  IN IF \E o \in 1..2 : FS_Exists(a.FileSystem, fs, idToPath(id, o).path)
     THEN [id |-> id, err |-> NoErr, files |-> fs]
     ELSE IF a.Owner.Key.isNil
     THEN LET w == writeFile(a.FileSystem, fs, name, contents)
          IN IF w.err # NoErr THEN [id |-> <<>>, err |-> w.err, files |-> w.files]
             ELSE [id |-> id, err |-> NoErr, files |-> w.files]
     ELSE LET w == writeEncrypted(a, fs, name, binaryId, contents)
          IN IF w.err # NoErr THEN [id |-> <<>>, err |-> w.err, files |-> w.files]
             ELSE [id |-> id, err |-> NoErr, files |-> w.files]

\* aesFS.Write
aesFS_Write(a, fs, contents) ==
  LET binaryId == checksum(contents)
      id == HexEncode(binaryId)
      name == idToPath(id, a.Owner.Id).path
  IN IF FS_Exists(a.FileSystem, fs, name)
     THEN [id |-> id, err |-> NoErr, files |-> fs]
     ELSE IF a.Owner.Key.isNil
     THEN LET w == writeFile(a.FileSystem, fs, name, contents)
          IN IF w.err # NoErr THEN [id |-> <<>>, err |-> w.err, files |-> w.files]
             ELSE [id |-> id, err |-> NoErr, files |-> w.files]
     ELSE LET w == writeEncrypted(a, fs, name, binaryId, contents)
          IN IF w.err # NoErr THEN [id |-> <<>>, err |-> w.err, files |-> w.files]
             ELSE [id |-> id, err |-> NoErr, files |-> w.files]

\* The backend streams aesFS.Write opens, and those of them closed when it
\* returns.
aesFS_Write_Streams(a, fs, contents) ==
  LET name == idToPath(HexEncode(checksum(contents)), a.Owner.Id).path
  IN IF FS_Exists(a.FileSystem, fs, name) THEN [opened |-> 0, closed |-> 0]
     ELSE IF a.Owner.Key.isNil THEN writeFile_Streams(a.FileSystem)
     ELSE writeEncrypted_Streams(a)

\* An openEncrypted that hands out the stored bytes as they are.
openEncrypted_Raw(a, fs, name, binaryId) ==
  LET r == FS_Open(a.FileSystem, fs, name)
  IN IF r.err # NoErr THEN [err |-> r.err, data |-> <<>>]
     ELSE IF ~NewCipherOK(a.Owner.Key) THEN [err |-> KeySizeError, data |-> <<>>]
     ELSE [err |-> NoErr, data |-> r.data]

\* aesFS.openEncrypted: the bytes a full read of the returned stream yields.
openEncrypted(a, fs, name, binaryId) ==
  LET r == FS_Open(a.FileSystem, fs, name)
  IN IF r.err # NoErr THEN [err |-> r.err, data |-> <<>>]
     ELSE IF ~NewCipherOK(a.Owner.Key) THEN [err |-> KeySizeError, data |-> <<>>]
     ELSE [err |-> NoErr,
           data |-> CFBDecrypt(a.Owner.Key, iv(binaryId, a.Owner.Id), r.data)]

\* The backend streams openEncrypted opens, and those of them closed when it
\* returns: the reader is open before the cipher is built; with the cipher
\* built it is handed to the caller inside the readerCloser.
openEncrypted_Streams(a, fs, name) ==
  IF FS_Open(a.FileSystem, fs, name).err # NoErr THEN [opened |-> 0, closed |-> 0]
  ELSE [opened |-> 1, closed |-> 0]

\* The backend streams aesFS.Open opens, and those of them closed when it
\* returns.
aesFS_Open_Streams(a, fs, cs) ==
  LET p == idToPath(cs, a.Owner.Id)
  IN IF p.panic THEN [opened |-> 0, closed |-> 0]
     ELSE IF a.Owner.Key.isNil
     THEN IF FS_Open(a.FileSystem, fs, p.path).err # NoErr
          THEN [opened |-> 0, closed |-> 0]
          ELSE [opened |-> 1, closed |-> 0]
     ELSE IF HexDecode(cs).err # NoErr THEN [opened |-> 0, closed |-> 0]
     ELSE openEncrypted_Streams(a, fs, p.path)

\* An Open that reads the backend before it decodes the checksum.
aesFS_Open_BackendFirst(a, fs, cs) ==
  LET p == idToPath(cs, a.Owner.Id)
      r == FS_Open(a.FileSystem, fs, p.path)
  IN IF p.panic THEN [panic |-> TRUE, err |-> NoErr, data |-> <<>>]
     ELSE IF a.Owner.Key.isNil \/ r.err # NoErr THEN [panic |-> FALSE] @@ r
     ELSE IF HexDecode(cs).err # NoErr
     THEN [panic |-> FALSE, err |-> HexDecode(cs).err, data |-> <<>>]
     ELSE [panic |-> FALSE] @@ openEncrypted(a, fs, p.path, HexDecode(cs).bytes)

\* aesFS.Open: panics in idToPath on a checksum shorter than two characters.
aesFS_Open(a, fs, cs) ==
  LET p == idToPath(cs, a.Owner.Id)
  IN IF p.panic THEN [panic |-> TRUE, err |-> NoErr, data |-> <<>>]
     ELSE IF a.Owner.Key.isNil
     THEN [panic |-> FALSE] @@ FS_Open(a.FileSystem, fs, p.path)
     ELSE IF HexDecode(cs).err # NoErr
     THEN [panic |-> FALSE, err |-> HexDecode(cs).err, data |-> <<>>]
     ELSE [panic |-> FALSE] @@ openEncrypted(a, fs, p.path, HexDecode(cs).bytes)

\* --------------------------------------------------------- Metadata Store

\* The zero Entry.
NoEntry ==
  [Id |-> 0, Name |-> <<>>, Size |-> 0, Ts |-> 0, OwnerId |-> 0, Checksum |-> <<>>]

\* A Path that leaves out the separator.
Path_NoSlash(e) == Itoa(e.Id) \o e.Name

\* Entry.Path
Path(e) == Itoa(e.Id) \o <<"/">> \o e.Name

\* An AddEntry that gives the id of the last entry again.
fakeStore_AddEntry_ReusesId(f, entry) ==
  LET newId == IF Len(f) = 0 THEN 1 ELSE Len(f)
  IN [err |-> NoErr, id |-> newId, store |-> Append(f, [entry EXCEPT !.Id = newId])]

\* An AddEntry that puts the new entry in the place of the last one.
fakeStore_AddEntry_Overwrites(f, entry) ==
  LET newId == IF Len(f) = 0 THEN 1 ELSE Len(f)
  IN [err |-> NoErr, id |-> newId,
      store |-> IF Len(f) = 0 THEN <<[entry EXCEPT !.Id = newId]>>
                ELSE [f EXCEPT ![newId] = [entry EXCEPT !.Id = newId]]]

\* A new id that is the length read, with nothing added.
fakeStore_newId_Length(f) == Len(f)

\* fakeStore.AddEntry, its first statement: the new id is the length read
\* plus one.
fakeStore_newId(f) == Len(f) + 1

\* fakeStore.AddEntry, its append: the entry is put behind the first len
\* entries, len being the length the append read from the slice header, and
\* the slice is then those entries and the new one.
fakeStore_append(f, len, entry) == Append(SubSeq(f, 1, len), entry)

\* fakeStore.AddEntry by one caller at a time: the new id is the new length.
fakeStore_AddEntry(f, entry) ==
  LET newId == fakeStore_newId(f)
  IN [err |-> NoErr, id |-> newId,
      store |-> fakeStore_append(f, Len(f), [entry EXCEPT !.Id = newId])]

\* A lookup that does not compare owners.
fakeStore_EntryById_AnyOwner(f, id, ownerId) ==
  LET index == id - 1
  IN IF index < 0 \/ index >= Len(f) THEN [err |-> ErrNoSuchId, entry |-> NoEntry]
     ELSE [err |-> NoErr, entry |-> f[index + 1]]

\* A lookup that tells an entry of another owner from a missing one.
fakeStore_EntryById_OwnerError(f, id, ownerId) ==
  LET index == id - 1
  IN IF index < 0 \/ index >= Len(f) THEN [err |-> ErrNoSuchId, entry |-> NoEntry]
     ELSE IF ownerId # f[index + 1].OwnerId
     THEN [err |-> ErrPermission, entry |-> NoEntry]
     ELSE [err |-> NoErr, entry |-> f[index + 1]]

\* fakeStore.EntryById
fakeStore_EntryById(f, id, ownerId) ==
  LET index == id - 1
  IN IF index < 0 \/ index >= Len(f) THEN [err |-> ErrNoSuchId, entry |-> NoEntry]
     ELSE IF ownerId # f[index + 1].OwnerId
     THEN [err |-> ErrNoSuchId, entry |-> NoEntry]
     ELSE [err |-> NoErr, entry |-> f[index + 1]]

\* The ids whose lookup fails with a database error in a Store whose database
\* fails on some reads.
FailingIds == {2}

\* A read-only wrapper that reports ErrReadOnly after inserting.
Store_AddEntry_Inserts(kind, f, entry) ==
  CASE kind = "readOnlyStore" ->
         [err |-> ErrReadOnly, id |-> entry.Id,
          store |-> fakeStore_AddEntry(f, entry).store]
    [] kind = "errorStore" -> [err |-> errDatabase, id |-> entry.Id, store |-> f]
    [] OTHER -> fakeStore_AddEntry(f, entry)

\* Store.AddEntry by kind of store: the in-memory store; ReadOnlyStore around
\* it; a store whose every call fails (errorStore); a store that fails on some
\* reads.
Store_AddEntry(kind, f, entry) ==
  CASE kind = "readOnlyStore" -> [err |-> ErrReadOnly, id |-> entry.Id, store |-> f]
    [] kind = "errorStore" -> [err |-> errDatabase, id |-> entry.Id, store |-> f]
    [] OTHER -> fakeStore_AddEntry(f, entry)

\* A read-only wrapper that finds nothing.
Store_EntryById_Hides(kind, f, id, ownerId) ==
  CASE kind = "errorStore" -> [err |-> errDatabase, entry |-> NoEntry]
    [] kind = "failingStore" /\ id \in FailingIds ->
         [err |-> errDatabase, entry |-> NoEntry]
    [] kind = "readOnlyStore" -> [err |-> ErrNoSuchId, entry |-> NoEntry]
    [] OTHER -> fakeStore_EntryById(f, id, ownerId)

\* Store.EntryById by kind of store.
Store_EntryById(kind, f, id, ownerId) ==
  CASE kind = "errorStore" -> [err |-> errDatabase, entry |-> NoEntry]
    [] kind = "failingStore" /\ id \in FailingIds ->
         [err |-> errDatabase, entry |-> NoEntry]
    [] OTHER -> fakeStore_EntryById(f, id, ownerId)

\* ----------------------------------------------- Immutable Filesystem Facade

\* A parsePath that takes the first two of any number of segments.
parsePath_FirstTwo(name) ==
  LET parts == Split(name)
      bad == [id |-> 0, baseName |-> <<>>, ok |-> FALSE]
  IN IF ~ValidPath(name) THEN bad
     ELSE IF Len(parts) < 2 THEN bad
     ELSE IF ~ParseInt(parts[1]).ok THEN bad
     ELSE [id |-> ParseInt(parts[1]).val, baseName |-> parts[2], ok |-> TRUE]

\* parsePath
parsePath(name) ==
  LET parts == Split(name)
      bad == [id |-> 0, baseName |-> <<>>, ok |-> FALSE]
  IN IF ~ValidPath(name) THEN bad
     ELSE IF Len(parts) # 2 THEN bad
     ELSE IF ~ParseInt(parts[1]).ok THEN bad
     ELSE [id |-> ParseInt(parts[1]).val, baseName |-> parts[2], ok |-> TRUE]

\* A fileInfo of a file its owner may write.
fileInfo_Writable(entry) ==
  [Name |-> entry.Name, Size |-> entry.Size, Mode |-> "0600",
   ModTime |-> entry.Ts, IsDir |-> FALSE, Sys |-> "nil"]

\* fileInfo: what Stat of an opened file reports.
fileInfo(entry) ==
  [Name |-> entry.Name, Size |-> entry.Size, Mode |-> "0400",
   ModTime |-> entry.Ts, IsDir |-> FALSE, Sys |-> "nil"]

NoInfo ==
  [Name |-> <<>>, Size |-> 0, Mode |-> "", ModTime |-> 0, IsDir |-> FALSE,
   Sys |-> "nil"]

\* What Open gives when it returns (nil, err).
OpenFails(err) ==
  [panic |-> FALSE, file |-> FALSE, err |-> err, data |-> <<>>, info |-> NoInfo]

\* An Open that passes on the errors of the two stores as they are.
immutableFS_Open_RawErrors(f, fs, st, name) ==
  LET pathErr == PathError("open", name)
      p == parsePath(name)
      r == Store_EntryById(f.Store, st, p.id, f.Owner.Id)
      o == aesFS_Open(f, fs, r.entry.Checksum)
  IN IF ~p.ok THEN OpenFails(pathErr)
     ELSE IF r.err # NoErr THEN OpenFails(r.err)
     ELSE IF p.baseName # r.entry.Name THEN OpenFails(pathErr)
     ELSE IF o.panic THEN [OpenFails(NoErr) EXCEPT !.panic = TRUE]
     ELSE IF o.err # NoErr THEN OpenFails(o.err)
     ELSE [panic |-> FALSE, file |-> TRUE, err |-> NoErr, data |-> o.data,
           info |-> fileInfo(r.entry)]

\* immutableFS.Open: file tells whether a file is returned; data is what
\* reading it to the end yields, info what its Stat reports.
immutableFS_Open(f, fs, st, name) ==
  LET pathErr == PathError("open", name)
      p == parsePath(name)
      r == Store_EntryById(f.Store, st, p.id, f.Owner.Id)
      o == aesFS_Open(f, fs, r.entry.Checksum)
  IN IF ~p.ok THEN OpenFails(pathErr)
     ELSE IF r.err # NoErr THEN OpenFails(pathErr)
     ELSE IF p.baseName # r.entry.Name THEN OpenFails(pathErr)
     ELSE IF o.panic THEN [OpenFails(NoErr) EXCEPT !.panic = TRUE]
     ELSE IF o.err # NoErr THEN OpenFails(pathErr)
     ELSE [panic |-> FALSE, file |-> TRUE, err |-> NoErr, data |-> o.data,
           info |-> fileInfo(r.entry)]

\* The backend streams immutableFS.Open opens, and those of them closed when
\* it returns: aesFS.Open is reached once the Entry is found under the name
\* given.  Both wrappers forward Open.
immutableFS_Open_Streams(f, fs, st, name) ==
  LET p == parsePath(name)
      r == Store_EntryById(f.Store, st, p.id, f.Owner.Id)
  IN IF ~p.ok \/ r.err # NoErr \/ p.baseName # r.entry.Name
     THEN [opened |-> 0, closed |-> 0]
     ELSE aesFS_Open_Streams(f, fs, r.entry.Checksum)

\* immutableFS.Write at time now.
immutableFS_Write(f, fs, st, name, contents, now) ==
  LET w == aesFS_Write(f, fs, contents)
      entry == [Id |-> 0, Name |-> name, Size |-> Len(contents), Ts |-> now,
                OwnerId |-> f.Owner.Id, Checksum |-> w.id]
      a == Store_AddEntry(f.Store, st, entry)
  IN IF w.err # NoErr
     THEN [id |-> 0, err |-> w.err, files |-> w.files, store |-> st, wrote |-> FALSE]
     ELSE IF a.err # NoErr
     THEN [id |-> 0, err |-> a.err, files |-> w.files, store |-> a.store,
           wrote |-> TRUE]
     ELSE [id |-> a.id, err |-> NoErr, files |-> w.files, store |-> a.store,
           wrote |-> TRUE]

\* The backend streams immutableFS.Write opens, and those of them closed when
\* it returns: those of aesFS.Write.
immutableFS_Write_Streams(f, fs, contents) == aesFS_Write_Streams(f, fs, contents)

\* A read-only wrapper that forwards Write to the facade it wraps.
roImmutableFS_Write_Forwards(f, fs, st, name, contents, now) ==
  immutableFS_Write(f, fs, st, name, contents, now)

\* roImmutableFS.Write
roImmutableFS_Write(f, fs, st, name, contents, now) ==
  [id |-> 0, err |-> ErrPermission, files |-> fs, store |-> st, wrote |-> FALSE]

\* The backend streams ImmutableFS.Write opens and closes: none in the
\* read-only wrapper.
ImmutableFS_Write_Streams(f, fs, contents) ==
  IF f.ReadOnly THEN [opened |-> 0, closed |-> 0]
  ELSE immutableFS_Write_Streams(f, fs, contents)

\* ImmutableFS.Write: the wrapper's method on a read-only facade.
ImmutableFS_Write(f, fs, st, name, contents, now) ==
  IF f.ReadOnly THEN roImmutableFS_Write(f, fs, st, name, contents, now)
  ELSE immutableFS_Write(f, fs, st, name, contents, now)

\* sort.Slice(result, by Id): insertion of each element before the first with
\* a larger Id.
RECURSIVE Insert(_, _)
Insert(e, s) ==
  IF s = <<>> THEN <<e>>
  ELSE IF e.Id < Head(s).Id THEN <<e>> \o s
  ELSE <<Head(s)>> \o Insert(e, Tail(s))

\* No sorting: the entries in the order the loop appended them.
Unsorted(s) == s

RECURSIVE SortById(_)
SortById(s) == IF s = <<>> THEN <<>> ELSE Insert(Head(s), SortById(Tail(s)))

\* A List loop that takes the Entry of any owner for the facade's own.
RECURSIVE ListLoop_AnyOwner(_, _, _, _, _, _)
ListLoop_AnyOwner(f, st, ids, order, result, looked) ==
  IF order = <<>> THEN [err |-> NoErr, result |-> result, looked |-> looked]
  ELSE LET id == Head(order)
           r == fakeStore_EntryById_AnyOwner(st, id, f.Owner.Id)
       IN IF ids[id] # "true"
          THEN ListLoop_AnyOwner(f, st, ids, Tail(order), result, looked)
          ELSE IF r.err = ErrNoSuchId
          THEN ListLoop_AnyOwner(f, st, ids, Tail(order), result, looked \cup {id})
          ELSE ListLoop_AnyOwner(f, st, ids, Tail(order), Append(result, r.entry),
                                 looked \cup {id})

\* A loop that returns, with the error that ends it, the entries appended so
\* far.
RECURSIVE ListLoop_Partial(_, _, _, _, _, _)
ListLoop_Partial(f, st, ids, order, result, looked) ==
  IF order = <<>> THEN [err |-> NoErr, result |-> result, looked |-> looked]
  ELSE LET id == Head(order)
           r == Store_EntryById(f.Store, st, id, f.Owner.Id)
       IN IF ids[id] # "true"
          THEN ListLoop_Partial(f, st, ids, Tail(order), result, looked)
          ELSE IF r.err = ErrNoSuchId
          THEN ListLoop_Partial(f, st, ids, Tail(order), result, looked \cup {id})
          ELSE IF r.err # NoErr
          THEN [err |-> r.err, result |-> result, looked |-> looked \cup {id}]
          ELSE ListLoop_Partial(f, st, ids, Tail(order), Append(result, r.entry),
                                looked \cup {id})

\* The loop of immutableFS.List over the map's keys in the order the runtime
\* yields them: the entries appended so far, the ids looked up, the error that
\* ended the loop.
RECURSIVE ListLoop(_, _, _, _, _, _)
ListLoop(f, st, ids, order, result, looked) ==
  IF order = <<>> THEN [err |-> NoErr, result |-> result, looked |-> looked]
  ELSE LET id == Head(order)
           r == Store_EntryById(f.Store, st, id, f.Owner.Id)
       IN IF ids[id] # "true" THEN ListLoop(f, st, ids, Tail(order), result, looked)
          ELSE IF r.err = ErrNoSuchId
          THEN ListLoop(f, st, ids, Tail(order), result, looked \cup {id})
          ELSE IF r.err # NoErr
          THEN [err |-> r.err, result |-> <<>>, looked |-> looked \cup {id}]
          ELSE ListLoop(f, st, ids, Tail(order), Append(result, r.entry),
                        looked \cup {id})

\* immutableFS.List(ids), the map iterated in the given order.
immutableFS_List(f, st, ids, order) ==
  LET l == ListLoop(f, st, ids, order, <<>>, {})
  IN IF l.err # NoErr THEN l ELSE [l EXCEPT !.result = SortById(l.result)]

\* A read-only wrapper whose Open refuses.
roImmutableFS_Open_Refuses(f, fs, st, name) == OpenFails(ErrPermission)

\* roImmutableFS.Open: the method of the embedded ImmutableFS, the facade
\* wrapped.
roImmutableFS_Open(f, fs, st, name) ==
  immutableFS_Open([f EXCEPT !.ReadOnly = FALSE], fs, st, name)

\* ImmutableFS.Open
ImmutableFS_Open(f, fs, st, name) ==
  IF f.ReadOnly THEN roImmutableFS_Open(f, fs, st, name)
  ELSE immutableFS_Open(f, fs, st, name)

\* roImmutableFS.List: the method of the embedded ImmutableFS.
roImmutableFS_List(f, st, ids, order) ==
  immutableFS_List([f EXCEPT !.ReadOnly = FALSE], st, ids, order)

\* ImmutableFS.List
ImmutableFS_List(f, st, ids, order) ==
  IF f.ReadOnly THEN roImmutableFS_List(f, st, ids, order)
  ELSE immutableFS_List(f, st, ids, order)

\* ------------------------------------------------------------- the inputs

\* Owner 1 stores in the clear, owner 2 under a 32 byte key.
Owner1 == [Id |-> 1, Key |-> NilKey]
Owner2 == [Id |-> 2, Key |-> MkKey(32, 1)]
Owners == {Owner1, Owner2}

\* NewImmutableFS(fileSystem, store, owner), wrapped by ReadOnly or not.
Facade(owner, fileSystem, st, readOnly) ==
  [Owner |-> owner, FileSystem |-> fileSystem, Store |-> st, ReadOnly |-> readOnly]

\* The facades over the shared backend and the shared Metadata Store.
Facades ==
  {Facade(o, "fakeFS", "fakeStore", ro) : o \in Owners, ro \in BOOLEAN}

\* The facades one of whose collaborators refuses or fails.
FaultyFacades ==
  {Facade(o, "fakeFS", "readOnlyStore", FALSE) : o \in Owners}
  \cup {Facade(o, k, "fakeStore", FALSE) : o \in Owners, k \in {"readOnlyFS", "nilFS"}}
  \cup {Facade(Owner1, "fakeFS", "errorStore", FALSE),
        Facade(Owner2, "fakeFS", "failingStore", FALSE),
        Facade(Owner1, "nilFS", "readOnlyStore", FALSE)}

AllFacades ==
  {Facade(o, "fakeFS", "fakeStore", FALSE) : o \in Owners} \cup FaultyFacades

Names == {<<"a">>, <<"b">>}

Contents == {<<>>, <<1>>, <<2, 1>>}

\* What time.Now().Unix() gives.
Times == {100}

\* Entries another client of the Metadata Store inserts: a checksum with no
\* blob, a checksum that is no hex string, a checksum that is too short.
RawChecksums == {<<"a", "b">>, <<"z", "z">>, <<>>}

RawEntries ==
  {[Id |-> 0, Name |-> <<"a">>, Size |-> 0, Ts |-> 100, OwnerId |-> 2,
    Checksum |-> c] : c \in RawChecksums}

ListIds == {1, 2, 3}

\* map[int64]bool over ListIds: an id is marked true, marked false or absent.
IdMaps == [ListIds -> {"true", "false", "absent"}]

Keys(ids) == {i \in ListIds : ids[i] # "absent"}

\* The orders in which a range over the map may yield its keys.
Orders(S) ==
  {o \in [1..Cardinality(S) -> S] : \A i, j \in 1..Cardinality(S) : i # j => o[i] # o[j]}

\* The paths of the form id/name.
EntryPaths == {Itoa(i) \o <<"/">> \o n : i \in 0..3, n \in Names}

\* Paths that are not of the form id/name, or spell the id in another way.
OddPaths ==
  {<<"/", "a">>, <<"a">>, <<"a", "/", "b">>, <<"1", "/", "a", "/", "b">>,
   <<"+", "1", "/", "a">>, <<"0", "1", "/", "a">>, <<"-", "1", "/", "a">>,
   <<"1", "/">>, <<>>, <<".">>, <<"1", "/", ".", ".">>, <<"1">>}

OpenPaths == EntryPaths \cup OddPaths

\* ---------------------------------------------------------------- actions

\* The caller makes one call at a time: last.op is "none" between calls.
NoCall ==
  [op |-> "none", f |-> Facade(Owner1, "fakeFS", "fakeStore", FALSE),
   name |-> <<>>, contents |-> <<>>, ids |-> [i \in ListIds |-> "absent"],
   id |-> 0, err |-> NoErr, panic |-> FALSE, file |-> FALSE, data |-> <<>>,
   info |-> NoInfo, result |-> <<>>, looked |-> {}, wrote |-> FALSE,
   opened |-> 0, closed |-> 0, checksum |-> <<>>, ownerId |-> 0, path |-> <<>>]

\* The goroutines that call Write at the same time.
Goroutines == {1, 2}

\* A goroutine that is in no call.
NoWrite ==
  [pc |-> "idle", f |-> Facade(Owner1, "fakeFS", "fakeStore", FALSE),
   name |-> <<>>, contents |-> <<>>, now |-> 0, existed |-> FALSE,
   writer |-> fakeFS_Write(<<>>), checksum |-> <<>>, newId |-> 0, len |-> 0,
   id |-> 0, err |-> NoErr, raced |-> FALSE]

\* The second run before any call: its backend and Metadata Store are empty,
\* no owner's Writes have differed from the first run's, and every Write has
\* had the same outcome in both.
NoTwin ==
  [files |-> <<>>, store |-> <<>>, last |-> NoCall, diverged |-> 0,
   sameOutcomes |-> TRUE]

Init ==
  /\ files = <<>>
  /\ store = <<>>
  /\ written = <<>>
  /\ stored = {}
  /\ last = NoCall
  /\ calls = [g \in Goroutines |-> NoWrite]
  /\ keyBuffer = Owner2.Key.seed
  /\ twin = NoTwin

\* f.Write(name, contents)
Write(f, name, contents, now) ==
  LET w == ImmutableFS_Write(f, files, store, name, contents, now)
      streams == ImmutableFS_Write_Streams(f, files, contents)
  IN /\ last.op = "none"
     /\ Len(store) < MaxEntries
     /\ files' = w.files
     /\ store' = w.store
     /\ written' = IF w.err = NoErr THEN Append(written, MkBytes(contents))
                   ELSE written
     /\ stored' = IF w.wrote
                  THEN stored \cup {<<HexEncode(checksum(contents)), f.Owner.Id>>}
                  ELSE stored
     /\ last' = [NoCall EXCEPT !.op = "Write", !.f = f, !.name = name,
                               !.contents = contents, !.id = w.id, !.err = w.err,
                               !.wrote = w.wrote, !.opened = streams.opened,
                               !.closed = streams.closed]
     /\ UNCHANGED <<calls, keyBuffer, twin>>

\* store.AddEntry(entry) by another client of the Metadata Store.
AddEntry(entry) ==
  LET a == fakeStore_AddEntry(store, entry)
  IN /\ last.op = "none"
     /\ Len(store) < MaxEntries
     /\ store' = a.store
     /\ written' = Append(written, NilBytes)
     /\ last' = [NoCall EXCEPT !.op = "AddEntry", !.id = a.id, !.err = a.err]
     /\ UNCHANGED <<files, stored, calls, keyBuffer, twin>>

\* f.Open(name), the file read to its end, its Stat taken, and the file
\* closed by the caller.
Open(f, name) ==
  LET o == ImmutableFS_Open(f, files, store, name)
      streams == immutableFS_Open_Streams(f, files, store, name)
  IN /\ last.op = "none"
     /\ last' = [NoCall EXCEPT !.op = "Open", !.f = f, !.name = name,
                               !.err = o.err, !.panic = o.panic, !.file = o.file,
                               !.data = o.data, !.info = o.info,
                               !.opened = streams.opened,
                               !.closed = IF o.file THEN streams.opened
                                          ELSE streams.closed]
     /\ UNCHANGED <<files, store, written, stored, calls, keyBuffer, twin>>

\* f.List(nil, ids), the runtime ranging over the map in some order.
List(f, ids, order) ==
  LET l == ImmutableFS_List(f, store, ids, order)
  IN /\ last.op = "none"
     /\ last' = [NoCall EXCEPT !.op = "List", !.f = f, !.ids = ids,
                               !.err = l.err, !.result = l.result,
                               !.looked = l.looked]
     /\ UNCHANGED <<files, store, written, stored, calls, keyBuffer, twin>>

\* The caller has taken the result of its call.
Return ==
  /\ last.op # "none"
  /\ last' = NoCall
  /\ UNCHANGED <<files, store, written, stored, calls, keyBuffer, twin>>

\* Callers of the facades over the shared backend and store.
Next ==
  \/ \E f \in Facades, name \in Names, contents \in Contents, now \in Times :
       Write(f, name, contents, now)
  \/ \E f \in Facades, name \in OpenPaths : Open(f, name)
  \/ \E f \in Facades, ids \in IdMaps : \E order \in Orders(Keys(ids)) :
       List(f, ids, order)
  \/ Return

Spec == Init /\ [][Next]_vars

\* What the callers of the faulty facades write, open and list.
FaultNames == {<<"a">>}

FaultContents == {<<>>, <<1>>}

FaultPaths ==
  {Itoa(i) \o <<"/">> \o <<"a">> : i \in 1..3}
  \cup {<<"1", "/", "b">>, <<"/", "a">>}

IdMap(T, F) ==
  [i \in ListIds |-> IF i \in T THEN "true" ELSE IF i \in F THEN "false" ELSE "absent"]

FaultMaps ==
  {IdMap({1, 2}, {}), IdMap({1}, {2}), IdMap({2}, {}), IdMap({}, {})}

\* Callers of every facade, the faulty ones included, and another client of the
\* Metadata Store.
NextFaults ==
  \/ \E f \in AllFacades, name \in FaultNames, contents \in FaultContents,
        now \in Times :
       Write(f, name, contents, now)
  \/ \E entry \in RawEntries : AddEntry(entry)
  \/ \E f \in AllFacades, name \in FaultPaths : Open(f, name)
  \/ \E f \in AllFacades, ids \in FaultMaps : \E order \in Orders(Keys(ids)) :
       List(f, ids, order)
  \/ Return

SpecFaults == Init /\ [][NextFaults]_vars

\* ------------------------------------------------------------ the claims

\* The physical path of the blob of contents under an owner.
BlobPath(contents, ownerId) == idToPath(HexEncode(checksum(contents)), ownerId).path

\* Entry i was created by a facade Write (and not by another client).
ByWrite(i) == ~written[i].isNil

\* C1, dedup: two Entries that Write created for the same owner from the same
\* bytes have different ids and the same checksum, and the backend holds
\* exactly one blob for that (checksum, owner id); the number of blobs in the
\* backend is the number of distinct (checksum, owner id) pairs written with
\* success.
C1_Dedup ==
  /\ numFiles(files) = Cardinality(stored)
  /\ \A i, j \in 1..Len(store) :
       (/\ i # j
        /\ ByWrite(i) /\ ByWrite(j)
        /\ store[i].OwnerId = store[j].OwnerId
        /\ written[i] = written[j])
       => /\ store[i].Id # store[j].Id
          /\ store[i].Checksum = store[j].Checksum
          /\ Cardinality({p \in DOMAIN files :
                            p = idToPath(store[i].Checksum, store[i].OwnerId).path}) = 1
          /\ Cardinality({q \in stored : q = <<store[i].Checksum, store[i].OwnerId>>}) = 1

\* C1's case: the second Write of the same bytes for the same owner returned.
C1_Witness ==
  /\ last.op = "Write" /\ last.err = NoErr /\ last.id = 2
  /\ ByWrite(1)
  /\ store[1].OwnerId = store[2].OwnerId
  /\ written[1] = written[2]
  /\ written[1].data # <<>>

\* C2, isolation: Open on a facade of owner B of the path of an Entry of another
\* owner A fails as NotFound, and List on B's facade returns no Entry of A,
\* whatever the id map.
C2_Isolation ==
  /\ last.op = "Open" =>
       \A i \in 1..Len(store) :
         (store[i].OwnerId # last.f.Owner.Id /\ last.name = Path(store[i]))
         => ~last.file /\ last.err = PathError("open", last.name)
  /\ last.op = "List" =>
       \A k \in 1..Len(last.result) :
         /\ last.result[k].OwnerId = last.f.Owner.Id
         /\ store[last.result[k].Id].OwnerId = last.f.Owner.Id

\* C2's case: owner B opened the exact path of an Entry of owner A.
C2_Witness ==
  /\ last.op = "Open"
  /\ \E i \in 1..Len(store) :
       /\ ByWrite(i)
       /\ store[i].OwnerId # last.f.Owner.Id
       /\ last.name = Path(store[i])
       /\ written[i].data # <<>>
  /\ last.err = PathError("open", last.name)

\* C3, round trip: after a Write that succeeded, Open of "id/name" on every
\* facade of the same owner yields the contents unchanged, and the Entry has
\* the size of the contents, the name given and the owner of the facade.
C3_RoundTrip ==
  (last.op = "Write" /\ last.err = NoErr) =>
    /\ store[last.id].Size = Len(last.contents)
    /\ store[last.id].Name = last.name
    /\ store[last.id].OwnerId = last.f.Owner.Id
    /\ \A g \in Facades :
         g.Owner = last.f.Owner =>
           LET o == immutableFS_Open(g, files, store,
                                     Itoa(last.id) \o <<"/">> \o last.name)
           IN o.file /\ o.err = NoErr /\ o.data = last.contents

\* The round trip of C3 for contents that are not empty.
RoundTripNonEmpty == last.contents # <<>> => C3_RoundTrip

\* The stages of the Open that last records: the path does not parse, the
\* Metadata Store lookup fails, the name does not match, the Content Store
\* returns an error.
ParseFails == ~parsePath(last.name).ok

LookupOf == Store_EntryById(last.f.Store, store, parsePath(last.name).id, last.f.Owner.Id)

LookupFails == ~ParseFails /\ LookupOf.err # NoErr

NameDiffers ==
  ~ParseFails /\ LookupOf.err = NoErr /\ LookupOf.entry.Name # parsePath(last.name).baseName

BlobOf == aesFS_Open(last.f, files, LookupOf.entry.Checksum)

BlobFails ==
  /\ ~ParseFails /\ LookupOf.err = NoErr /\ ~NameDiffers
  /\ ~BlobOf.panic /\ BlobOf.err # NoErr

\* C4, one failure outcome of Open: when the path fails to parse, the lookup
\* fails (ErrNoSuchId or another store error), the name does not match or the
\* Content Store returns an error (blob missing, decrypt stage), Open returns
\* no file and PathError{"open", path, ErrNotExist}; whenever Open returns, it
\* returns that error with no file, or a file with no error.
C4_OpenOneError ==
  (last.op = "Open" /\ ~last.panic) =>
    /\ (ParseFails \/ LookupFails \/ NameDiffers \/ BlobFails)
         => ~last.file /\ last.err = PathError("open", last.name)
    /\ \/ last.file /\ last.err = NoErr
       \/ ~last.file /\ last.err = PathError("open", last.name)

\* C4's case: the decrypt stage failed on a checksum that is no hex string.
C4_Witness ==
  /\ last.op = "Open"
  /\ BlobFails /\ BlobOf.err = InvalidByteError
  /\ last.err = PathError("open", last.name)

\* C4's other cases: a store error that is not ErrNoSuchId; a missing blob.
C4_WitnessStoreError ==
  last.op = "Open" /\ LookupFails /\ LookupOf.err = errDatabase
  /\ last.err = PathError("open", last.name)

C4_WitnessBlobMissing ==
  last.op = "Open" /\ BlobFails /\ BlobOf.err = ErrNotExist
  /\ last.err = PathError("open", last.name)

\* What the five conditions of the path parsing boundary say of a path, read
\* off its characters.
Slashes(p) == {i \in 1..Len(p) : p[i] = "/"}

IsAbsolute(p) == p # <<>> /\ p[1] = "/"

FirstSlash(p) == CHOOSE i \in Slashes(p) : \A j \in Slashes(p) : i <= j

FirstSegment(p) == IF Slashes(p) = {} THEN p ELSE SubSeq(p, 1, FirstSlash(p) - 1)

SecondSegment(p) == SubSeq(p, FirstSlash(p) + 1, Len(p))

\* A base-10 integer: decimal digits after an optional sign.
IsBase10(s) ==
  LET body == IF s # <<>> /\ s[1] \in {"+", "-"} THEN SubSeq(s, 2, Len(s)) ELSE s
  IN body # <<>>
     /\ \A i \in 1..Len(body) :
          body[i] \in {"0", "1", "2", "3", "4", "5", "6", "7", "8", "9"}

\* The Entries of an owner with the id a decimal string names.
EntriesNamed(s, ownerId) ==
  {i \in 1..Len(store) : Itoa(store[i].Id) = s /\ store[i].OwnerId = ownerId}

\* The unsigned decimal strings that name the same number as s.
Unsigned(s) == IF s # <<>> /\ s[1] = "+" THEN SubSeq(s, 2, Len(s)) ELSE s

RECURSIVE NoLeadingZeros(_)
NoLeadingZeros(s) ==
  IF Len(s) > 1 /\ s[1] = "0" THEN NoLeadingZeros(Tail(s)) ELSE s

Canonical(s) == NoLeadingZeros(Unsigned(s))

\* C5, path parsing boundary: Open fails as NotFound for an absolute path, a
\* path of more or fewer than two segments, a first segment that is no base-10
\* integer, an id with no Entry of this owner, and an id whose Entry has
\* another name than the second segment; so a file is returned only when none
\* of the five holds.
C5_PathBoundary ==
  last.op = "Open" =>
    LET p == last.name
        twoSegments == Cardinality(Slashes(p)) = 1
        numeric == twoSegments /\ IsBase10(FirstSegment(p))
        mine == EntriesNamed(Canonical(FirstSegment(p)), last.f.Owner.Id)
        refused ==
          \/ IsAbsolute(p)
          \/ ~twoSegments
          \/ ~numeric
          \/ numeric /\ mine = {}
          \/ numeric /\ \E i \in mine : store[i].Name # SecondSegment(p)
    IN /\ refused => ~last.file /\ last.err = PathError("open", p)
       /\ last.file => ~refused

\* C5's case: the id names an Entry of this owner under another name.
C5_Witness ==
  /\ last.op = "Open"
  /\ Cardinality(Slashes(last.name)) = 1
  /\ \E i \in EntriesNamed(FirstSegment(last.name), last.f.Owner.Id) :
       store[i].Name # SecondSegment(last.name) /\ written[i].data # <<>>
  /\ last.err = PathError("open", last.name)

\* C5's other case: a file is returned, none of the five conditions holding.
C5_WitnessOpened ==
  last.op = "Open" /\ last.file /\ last.data # <<>>

\* The ids a map marks true.
Wanted(ids) == {i \in ListIds : ids[i] = "true"}

\* The wanted ids with an Entry of an owner.
Found(ids, ownerId) ==
  {i \in Wanted(ids) : i <= Len(store) /\ store[i].OwnerId = ownerId}

Ids(result) == {result[k].Id : k \in 1..Len(result)}

\* C6, List filtering and sorting: List returns exactly the Entries whose id
\* the map marks true and that exist for the facade's owner, each once, in
\* strictly ascending order of id whatever the order the map is iterated in;
\* ids marked false or absent are never looked up.
C6_ListSorted ==
  last.op = "List" =>
    /\ last.err = NoErr
    /\ Ids(last.result) = Found(last.ids, last.f.Owner.Id)
    /\ Len(last.result) = Cardinality(Found(last.ids, last.f.Owner.Id))
    /\ \A k \in 1..Len(last.result) : last.result[k] = store[last.result[k].Id]
    /\ \A k \in 1..(Len(last.result) - 1) : last.result[k].Id < last.result[k + 1].Id
    /\ last.looked \subseteq Wanted(last.ids)

\* C6's case: List returned two Entries, which it had to put in order, from
\* a map that does not mark every id true.
C6_Witness ==
  /\ last.op = "List"
  /\ Len(last.result) = 2
  /\ \E i \in ListIds : last.ids[i] # "true"

\* C6's other case: List left out an Entry of the owner whose id the map
\* marks false, and returned another.
C6_WitnessOmitted ==
  /\ last.op = "List"
  /\ Len(last.result) = 1
  /\ \E i \in 1..Len(store) :
       last.ids[i] = "false" /\ store[i].OwnerId = last.f.Owner.Id

\* The errors other than ErrNoSuchId that the lookups of the wanted ids give.
LookupErrors ==
  {Store_EntryById(last.f.Store, store, i, last.f.Owner.Id).err : i \in Wanted(last.ids)}
  \ {NoErr, ErrNoSuchId}

\* C7, List error handling: an ErrNoSuchId of the Metadata Store for a wanted
\* id is skipped and List succeeds; any other error for a wanted id ends the
\* call, which returns that error and no entries.
C7_ListErrors ==
  last.op = "List" =>
    /\ LookupErrors = {} =>
         /\ last.err = NoErr
         /\ Ids(last.result) = Found(last.ids, last.f.Owner.Id)
    /\ LookupErrors # {} =>
         /\ last.err \in LookupErrors
         /\ last.result = <<>>

\* C7's case: one wanted id has an Entry of the owner, the lookup of another
\* fails with a database error.
C7_Witness ==
  /\ last.op = "List"
  /\ last.f.Store = "failingStore"
  /\ Found(last.ids, last.f.Owner.Id) \ FailingIds # {}
  /\ last.err = errDatabase
  /\ last.result = <<>>

\* C7's other case: a wanted id without an Entry is skipped.
C7_WitnessSkipped ==
  /\ last.op = "List" /\ last.err = NoErr
  /\ Wanted(last.ids) \ Found(last.ids, last.f.Owner.Id) # {}
  /\ Len(last.result) > 0

\* C8, Write on a read-only facade: it fails with fs.ErrPermission and id 0,
\* and the Metadata Store's entries and the backend's blobs are after the call
\* what they were before.
C8_ReadOnlyWrite ==
  [][(last'.op = "Write" /\ last'.f.ReadOnly)
       => /\ last'.err = ErrPermission
          /\ last'.id = 0
          /\ store' = store
          /\ files' = files]_vars

\* C8's case: a Write on a read-only facade returned, entries and blobs being
\* there to lose.
C8_Witness ==
  /\ last.op = "Write" /\ last.f.ReadOnly
  /\ last.err = ErrPermission
  /\ Len(store) > 0 /\ numFiles(files) > 0

\* C9 as claimed: a Write on a facade whose Metadata Store is read-only fails
\* with ErrReadOnly and changes nothing: neither the store's entries nor the
\* backend's blobs.
C9_NoSideEffects ==
  [][(last'.op = "Write" /\ last'.f.Store = "readOnlyStore")
       => /\ last'.err = ErrReadOnly
          /\ store' = store
          /\ files' = files]_vars

\* C9 as amended: a Write on a facade whose Metadata Store is read-only fails
\* with id 0 and leaves the store's entries unchanged; the error is ErrReadOnly
\* whenever the Content Store took the contents, and otherwise the backend's
\* error; the blob is written before the insert is tried, so after a call that
\* failed with ErrReadOnly the backend holds the blob of (checksum, owner) and
\* no other blob has changed.
C9_StoreUnchanged ==
  [][(last'.op = "Write" /\ last'.f.Store = "readOnlyStore")
       => /\ last'.err # NoErr
          /\ last'.id = 0
          /\ store' = store
          /\ last'.wrote <=> last'.err = ErrReadOnly
          /\ ~last'.wrote => files' = files /\ last'.err = FS_Write(last'.f.FileSystem)
          /\ last'.wrote =>
               /\ BlobPath(last'.contents, last'.f.Owner.Id) \in DOMAIN files'
               /\ \A q \in DOMAIN files : q \in DOMAIN files' /\ files'[q] = files[q]
               /\ DOMAIN files' \subseteq
                    DOMAIN files \cup {BlobPath(last'.contents, last'.f.Owner.Id)}]_vars

\* C9's case: the Write of an owner with a key failed with ErrReadOnly on an
\* empty store and left a blob behind.
C9_Witness ==
  /\ last.op = "Write" /\ last.f.Store = "readOnlyStore"
  /\ ~last.f.Owner.Key.isNil
  /\ last.err = ErrReadOnly
  /\ store = <<>>
  /\ BlobPath(last.contents, last.f.Owner.Id) \in DOMAIN files
  /\ last.contents # <<>>

\* C10, backend errors of Write: when the backend refuses the write of a blob
\* that does not exist yet, Write returns the backend's error (ErrReadOnly of a
\* read-only backend, ErrPermission of the nil backend) with id 0 and adds no
\* Entry.
C10_BackendError ==
  [][(/\ last'.op = "Write"
      /\ ~last'.f.ReadOnly
      /\ FS_Write(last'.f.FileSystem) # NoErr
      /\ ~FS_Exists(last'.f.FileSystem, files,
                    BlobPath(last'.contents, last'.f.Owner.Id)))
       => /\ last'.err = FS_Write(last'.f.FileSystem)
          /\ last'.id = 0
          /\ store' = store]_vars

\* C10's case: the read-only backend refused the blob of an owner with a key.
C10_Witness ==
  /\ last.op = "Write"
  /\ last.f.FileSystem = "readOnlyFS"
  /\ ~last.f.Owner.Key.isNil
  /\ last.err = ErrReadOnly /\ last.id = 0
  /\ last.contents # <<>>

\* C10's other case: the nil backend refused the blob.
C10_WitnessNil ==
  last.op = "Write" /\ last.f.FileSystem = "nilFS" /\ last.err = ErrPermission

\* The ids of the entries a store holds.
StoreIds(st) == {st[i].Id : i \in 1..Len(st)}

\* Whether a call is an insert that succeeded: a facade Write or an AddEntry
\* of another client.
Inserted(l) == l.op \in {"Write", "AddEntry"} /\ l.err = NoErr

\* C11, id assignment: every insert into the Metadata Store that succeeds,
\* through whatever facade and for whatever owner, returns an id greater than
\* every id given before, the in-memory store counting 1, 2, 3, ... in the
\* order of the calls; the entries never share an id, and a call that fails
\* uses up no id.
C11_IdAssignment ==
  [][/\ Inserted(last') =>
          /\ last'.id = Len(store) + 1
          /\ \A i \in StoreIds(store) : i < last'.id
          /\ Len(store') = Len(store) + 1
          /\ store'[last'.id].Id = last'.id
     /\ ~Inserted(last') => StoreIds(store') = StoreIds(store)
     /\ \A i, j \in 1..Len(store') : i # j => store'[i].Id # store'[j].Id]_vars

\* C11's case: the second id was given to a Write after the first went to
\* an entry of another owner.
C11_Witness ==
  /\ last.op = "Write" /\ last.err = NoErr
  /\ last.id = 2
  /\ store[1].OwnerId # store[2].OwnerId

\* The lookup of (id, ownerId) in the in-memory store.
Lookup(st, id, ownerId) == fakeStore_EntryById(st, id, ownerId)

\* The owner ids lookups are made with: the two owners' and one more.
LookupOwners == {1, 2, 3}

\* C12, Entries are immutable: a lookup by (id, owner) that returns a record
\* returns the same record after any further step, be it a Write, an Open, a
\* List or an insert by another client; no step updates or deletes an entry.
C12_Immutable ==
  [][\A id \in ListIds, o \in LookupOwners :
       Lookup(store, id, o).err = NoErr =>
         /\ Lookup(store', id, o) = Lookup(store, id, o)
         /\ id <= Len(store') /\ store'[id] = store[id]]_vars

\* C12's case: the first entry is read back after a second one was written.
C12_Witness ==
  /\ last.op = "Open" /\ last.file
  /\ Len(store) = 2
  /\ last.name = Path(store[1])
  /\ last.info = fileInfo(store[1])

\* The caller is between two calls.  Return leaves the backend and the store
\* as they are, so every state the two can be in is reached between calls.
Idle == last.op = "none"

\* Entries to insert next: those of the other client and one of owner 1.
ProbeEntries ==
  RawEntries
  \cup {[Id |-> 0, Name |-> <<"b">>, Size |-> 1, Ts |-> 100, OwnerId |-> 1,
         Checksum |-> <<"0", "a">>]}

\* C13, lookup contract of the Metadata Store: after AddEntry(e) has given e
\* the id i, EntryById(i, e.OwnerId) succeeds with a record equal to e, the id
\* included; EntryById fails with ErrNoSuchId when no record has the id, and
\* with the same ErrNoSuchId when the record of that id has another owner.
C13_LookupContract ==
  /\ \A id \in ListIds \cup {0}, o \in LookupOwners :
       Idle =>
       IF id \in 1..Len(store) /\ store[id].OwnerId = o
       THEN Lookup(store, id, o) = [err |-> NoErr, entry |-> store[id]]
            /\ store[id].Id = id
       ELSE Lookup(store, id, o).err = ErrNoSuchId
  /\ \A e \in ProbeEntries :
       Idle =>
       LET a == fakeStore_AddEntry(store, e)
       IN /\ a.err = NoErr
          /\ Lookup(a.store, a.id, e.OwnerId) =
               [err |-> NoErr, entry |-> [e EXCEPT !.Id = a.id]]
          /\ \A o \in LookupOwners \ {e.OwnerId} :
               Lookup(a.store, a.id, o).err = ErrNoSuchId
  /\ (last.op = "Write" /\ last.err = NoErr) =>
       LET r == Lookup(store, last.id, last.f.Owner.Id)
       IN /\ r.err = NoErr
          /\ r.entry.Id = last.id
          /\ r.entry.Name = last.name
          /\ r.entry.Size = Len(last.contents)

\* C13's case: an AddEntry returned the second id, and the two entries have
\* different owners, so each id is missing for the other's owner.
C13_Witness ==
  /\ last.op = "AddEntry" /\ last.err = NoErr /\ last.id = 2
  /\ store[1].OwnerId # store[2].OwnerId
  /\ Lookup(store, 2, store[2].OwnerId).err = NoErr
  /\ Lookup(store, 2, store[1].OwnerId).err = ErrNoSuchId

\* What an Open recorded in l returned.
Opened(l) ==
  [panic |-> l.panic, file |-> l.file, err |-> l.err, data |-> l.data,
   info |-> l.info]

\* C14, the read-only wrapper of a Metadata Store: in every state of the
\* wrapped store EntryById on the wrapper returns what the wrapped store
\* returns, and AddEntry on the wrapper fails with ErrReadOnly, gives the
\* entry no id and leaves the wrapped store's records as they are.
C14_ReadOnlyStore ==
  /\ \A id \in ListIds \cup {0}, o \in LookupOwners :
       Idle =>
       Store_EntryById("readOnlyStore", store, id, o) = Lookup(store, id, o)
  /\ \A e \in ProbeEntries :
       Idle =>
       Store_AddEntry("readOnlyStore", store, e) =
         [err |-> ErrReadOnly, id |-> e.Id, store |-> store]
  /\ (last.op = "Open" /\ last.f.Store = "readOnlyStore") =>
       Opened(last) =
         immutableFS_Open([last.f EXCEPT !.Store = "fakeStore"], files, store,
                          last.name)

\* C14's case: a facade over the wrapper opened an entry that a facade over
\* the wrapped store had written.
C14_Witness ==
  /\ last.op = "Open" /\ last.f.Store = "readOnlyStore"
  /\ last.f.FileSystem = "fakeFS"
  /\ last.file /\ last.data # <<>>

\* NewImmutableFS(fileSystem, store, owner): a new *immutableFS.
NewImmutableFS(fileSystem, st, owner) ==
  [type |-> "immutableFS", FileSystem |-> fileSystem, Store |-> st,
   Owner |-> owner]

\* &roImmutableFS{ImmutableFS: x}
roImmutableFS(x) == [type |-> "roImmutableFS", ImmutableFS |-> x]

\* immutableFS.ReadOnly
immutableFS_ReadOnly(x) == FALSE

\* roImmutableFS.ReadOnly
roImmutableFS_ReadOnly(x) == TRUE

\* ImmutableFS.ReadOnly, by the type of the instance.
ImmutableFS_ReadOnly(x) ==
  IF x.type = "roImmutableFS" THEN roImmutableFS_ReadOnly(x)
  ELSE immutableFS_ReadOnly(x)

\* A ReadOnly that wraps whatever it is given.
ReadOnly_AlwaysWraps(x) == roImmutableFS(x)

\* ReadOnly(fileSystem)
ReadOnly(x) == IF ImmutableFS_ReadOnly(x) THEN x ELSE roImmutableFS(x)

\* The number of read-only wrappers around an instance.
RECURSIVE Layers(_)
Layers(x) == IF x.type = "roImmutableFS" THEN 1 + Layers(x.ImmutableFS) ELSE 0

\* The facade an instance is: its collaborators, and whether Write goes to a
\* read-only wrapper.
RECURSIVE FacadeOf(_)
FacadeOf(x) ==
  IF x.type = "roImmutableFS" THEN [FacadeOf(x.ImmutableFS) EXCEPT !.ReadOnly = TRUE]
  ELSE Facade(x.Owner, x.FileSystem, x.Store, FALSE)

\* The instance NewImmutableFS gives for the collaborators of a facade.
Writable(f) == NewImmutableFS(f.FileSystem, f.Store, f.Owner)

\* C15, read-only wrapping is idempotent: NewImmutableFS gives an instance
\* that reports ReadOnly() = false; ReadOnly of it gives one that reports
\* true; ReadOnly of an instance that reports true gives that instance itself,
\* with no second wrapper around it.
C15_ReadOnlyIdempotent ==
  \A f \in Facades \cup {last.f} :
    LET x == Writable(f)
    IN /\ ~ImmutableFS_ReadOnly(x)
       /\ ImmutableFS_ReadOnly(ReadOnly(x))
       /\ ReadOnly(x) # x
       /\ ReadOnly(x).ImmutableFS = x
       /\ ReadOnly(ReadOnly(x)) = ReadOnly(x)
       /\ Layers(ReadOnly(ReadOnly(x))) = 1
       /\ FacadeOf(ReadOnly(ReadOnly(x))) = [f EXCEPT !.ReadOnly = TRUE]

\* C15's case: a Write went to the facade that wrapping twice gives, and was
\* refused.
C15_Witness ==
  /\ last.op = "Write"
  /\ last.f = FacadeOf(ReadOnly(ReadOnly(Writable(last.f))))
  /\ Layers(ReadOnly(ReadOnly(Writable(last.f)))) = 1
  /\ last.err = ErrPermission

\* The facade a read-only facade wraps.
Wrapped(f) == [f EXCEPT !.ReadOnly = FALSE]

\* C16, the read-only wrapper forwards reads: in every reachable state, for
\* every path and every id map, Open and List on ReadOnly(f) return what Open
\* and List on f return: the same content and file-info, the same entries in
\* the same order, or the same error.
C16_ReadOnlyForwards ==
  /\ (last.op = "Open" /\ last.f.ReadOnly) =>
       Opened(last) = immutableFS_Open(Wrapped(last.f), files, store, last.name)
  /\ (last.op = "List" /\ last.f.ReadOnly) =>
       \A order \in Orders(Keys(last.ids)) :
         LET l == immutableFS_List(Wrapped(last.f), store, last.ids, order)
         IN l.err = last.err /\ l.result = last.result

\* C16's case: a read-only facade opened an entry and read its bytes.
C16_Witness ==
  /\ last.op = "Open" /\ last.f.ReadOnly
  /\ last.file /\ last.data # <<>>

\* C16's other case: a read-only facade listed two entries.
C16_WitnessList ==
  last.op = "List" /\ last.f.ReadOnly /\ Len(last.result) = 2

\* The Write calls made on a writer before it is closed: none, one of no
\* bytes, one of a byte, two.
Chunks == {<<>>, <<<<>>>>, <<<<1>>>>, <<<<1>>, <<2>>>>}

RECURSIVE WriteAll(_, _)
WriteAll(w, chunks) ==
  IF chunks = <<>> THEN w
  ELSE WriteAll(fakeFSWriter_Write(w, Head(chunks)).writer, Tail(chunks))

RECURSIVE Flatten(_)
Flatten(chunks) ==
  IF chunks = <<>> THEN <<>> ELSE Head(chunks) \o Flatten(Tail(chunks))

\* Names of files written directly to the backend, beside the blobs.
WriterNames == {<<"e">>, <<"n">>}

\* What holds of a writer for name once it has taken the chunks and is closed:
\* the file exists and reads back, the writer refuses further bytes, and
\* another name that was never written is missing.
WriterProtocol(name, chunks) ==
  LET c == Writer_Close(files, WriteAll(fakeFS_Write(name), chunks))
  IN /\ fakeFS_Exists(c.files, name)
     /\ readFile(c.files, name) = [err |-> NoErr, data |-> Flatten(chunks)]
     /\ fakeFSWriter_Write(c.writer, <<1>>).err = ErrClosed
     /\ fakeFSWriter_Write(c.writer, <<1>>).n = 0
     /\ Writer_Close(c.files, c.writer).files = c.files
     /\ \A other \in WriterNames \ {name} :
          /\ ~fakeFS_Exists(c.files, other)
          /\ readFile(c.files, other).err = ErrNotExist

\* C17, the writer protocol of the in-memory backend: after Close of a writer
\* the file exists (Exists is true and Open succeeds) even when no bytes were
\* written to it; a further Write on the closed writer returns os.ErrClosed; a
\* name that was never written does not exist and Open of it returns
\* os.ErrNotExist.
C17_WriterProtocol ==
  \A name \in WriterNames, chunks \in Chunks : WriterProtocol(name, chunks)

\* The same for writers that took at least one byte.
WriterProtocolNonEmpty ==
  \A name \in WriterNames, chunks \in Chunks :
    Flatten(chunks) # <<>> => WriterProtocol(name, chunks)

\* What the protocol gives for a writer that took no bytes: the file is
\* missing after Close; the rest holds.
WriterProtocolEmpty ==
  \A name \in WriterNames, chunks \in Chunks :
    Flatten(chunks) = <<>> =>
      LET c == Writer_Close(files, WriteAll(fakeFS_Write(name), chunks))
      IN /\ ~fakeFS_Exists(c.files, name)
         /\ readFile(c.files, name).err = ErrNotExist
         /\ fakeFSWriter_Write(c.writer, <<1>>).err = ErrClosed

\* Checksums that are no digest in hex: the empty string, one character, a
\* string with characters that are no hex digits.
MalformedChecksums ==
  {<<>>, <<"a">>, <<"z", "z">>, <<"a", "_", "b", "a", "d", "_", "i", "d">>}

\* The Content Stores over the in-memory backend: one per owner.
ContentStores == {Facade(o, "fakeFS", "fakeStore", FALSE) : o \in Owners}

\* C18, no panic on malformed input: Open of the Content Store with a key,
\* given a malformed checksum (empty, shorter than two characters, not hex),
\* returns an error and does not panic; Open of the facade panics for no path
\* and no Entry the Metadata Store returns.
C18_NoPanic ==
  /\ \A a \in ContentStores, cs \in MalformedChecksums :
       ~a.Owner.Key.isNil =>
         /\ ~aesFS_Open(a, files, cs).panic
         /\ aesFS_Open(a, files, cs).err # NoErr
  /\ last.op = "Open" => ~last.panic

\* Where the code keeps C18: malformed checksums of two characters or more
\* give an error, with a key, and no panic.
NoPanicFromTwoCharacters ==
  \A a \in ContentStores, cs \in MalformedChecksums :
    (~a.Owner.Key.isNil /\ Len(cs) >= 2) =>
      /\ ~aesFS_Open(a, files, cs).panic
      /\ aesFS_Open(a, files, cs).err = InvalidByteError

\* C18's failing case through the facade: Open of the path of an Entry whose
\* checksum is empty panics.
C18_WitnessPanic ==
  /\ last.op = "Open" /\ last.panic
  /\ \E i \in 1..Len(store) :
       last.name = Path(store[i]) /\ Len(store[i].Checksum) < 2

\* The checksums Open of the Content Store is given: the digests of the
\* contents written, a digest of nothing written, the malformed ones.
ProbeChecksums ==
  {HexEncode(checksum(c)) : c \in Contents} \cup {<<"1", "2">>}
  \cup MalformedChecksums

\* Whether the backend has no blob for a checksum at the owner's path.
BlobAbsent(a, cs) ==
  ~FS_Exists(a.FileSystem, files, idToPath(cs, a.Owner.Id).path)

\* C19 as claimed, for checksums long enough to have a path: when the blob is
\* absent at the owner's path, Open of the Content Store returns the backend's
\* os.ErrNotExist, with a key and without; the backend is read before the
\* checksum is decoded.
C19_BackendFirst ==
  \A a \in ContentStores, cs \in ProbeChecksums :
    (Len(cs) >= 2 /\ BlobAbsent(a, cs)) =>
      /\ ~aesFS_Open(a, files, cs).panic
      /\ aesFS_Open(a, files, cs).err = ErrNotExist

\* C19 as amended: when the blob is absent at the owner's path, Open of the
\* Content Store without a key returns the backend's os.ErrNotExist; with a
\* key it decodes the checksum first, so a checksum that is not hex gives the
\* error of hex.DecodeString and the backend is not read, and a checksum that
\* is hex gives the backend's os.ErrNotExist.  A checksum shorter than two
\* characters has no path: the call panics.
C19_DecodeFirst ==
  \A a \in ContentStores, cs \in ProbeChecksums :
    Idle =>
    LET o == aesFS_Open(a, files, cs)
    IN IF Len(cs) < 2 THEN o.panic
       ELSE BlobAbsent(a, cs) =>
              /\ ~o.panic
              /\ o.err = IF ~a.Owner.Key.isNil /\ HexDecode(cs).err # NoErr
                         THEN InvalidByteError ELSE ErrNotExist

\* C19's case: the Content Store with a key was opened, through the facade,
\* for an Entry whose checksum is hex and has no blob, and for one whose
\* checksum is not hex.
C19_Witness ==
  /\ last.op = "Open" /\ BlobFails
  /\ ~last.f.Owner.Key.isNil
  /\ BlobAbsent(last.f, LookupOf.entry.Checksum)
  /\ BlobOf.err = ErrNotExist
  /\ \E i \in 1..Len(store) :
       /\ store[i].OwnerId = last.f.Owner.Id
       /\ aesFS_Open(last.f, files, store[i].Checksum).err = InvalidByteError

\* ------------------------------------------- one owner under several keys

\* The keys owner 2's facades are configured with: the owner's key and two
\* others.
KeySeeds == {1, 2, 4}

KeyFacades ==
  {Facade([Id |-> 2, Key |-> MkKey(32, k)], "fakeFS", "fakeStore", FALSE) :
     k \in KeySeeds}

KeyContents == {<<>>, <<1>>, <<3>>, <<2, 1>>}

KeyPaths == {Itoa(i) \o <<"/", "a">> : i \in 1..2}

\* What time.Now().Unix() gives at two Writes.
KeyTimes == {100, 200}

\* Owner 2's facades and the facade of owner 1, who has no key.
KeyedAndClear == KeyFacades \cup {Facade(Owner1, "fakeFS", "fakeStore", FALSE)}

\* Callers of owner 2's facades, configured with different keys, and of
\* owner 1's facade, over the same backend and store.
NextKeys ==
  \/ \E f \in KeyedAndClear, contents \in KeyContents, now \in KeyTimes :
       Write(f, <<"a">>, contents, now)
  \/ \E f \in KeyedAndClear, name \in KeyPaths : Open(f, name)
  \/ Return

SpecKeys == Init /\ [][NextKeys]_vars

\* Whether the block functions of two keys agree on every block the
\* decryption of ciph feeds them, prev being the block before its first byte.
RECURSIVE KeystreamsAgree(_, _, _, _)
KeystreamsAgree(k1, k2, prev, ciph) ==
  \/ ciph = <<>>
  \/ /\ Block(k1, prev) = Block(k2, prev)
     /\ KeystreamsAgree(k1, k2, Head(ciph), Tail(ciph))

\* The facades of the same owner as f under another key.
OtherKeys(f) ==
  {g \in KeyFacades : g.Owner.Id = f.Owner.Id /\ g.Owner.Key # f.Owner.Key}

\* Whether a step is a Write that succeeded and put a new blob.
WroteBlob(l, before, after) ==
  l.op = "Write" /\ l.err = NoErr /\ ~l.f.Owner.Key.isNil /\ after # before

\* C20 as claimed: content written under a key K and opened through a facade
\* of the same owner with another key K' is opened without error, and the
\* bytes read are not the plaintext, for every content.
C20_WrongKeyDiffers ==
  [][WroteBlob(last', files, files') =>
       \A g \in OtherKeys(last'.f) :
         LET o == immutableFS_Open(g, files', store',
                                   Itoa(last'.id) \o <<"/">> \o last'.name)
         IN o.file /\ o.err = NoErr /\ o.data # last'.contents]_vars

\* C20 as amended: content of at least one byte written under K and opened
\* under another key K' of the same owner is opened without error; the bytes
\* read are as many as the plaintext's, and they are the plaintext exactly
\* when the block functions of K and K' agree on every block the decryption
\* uses.  Content of no bytes leaves nothing to tell the keys apart: what is
\* read, if the open succeeds, is the empty plaintext; over the in-memory
\* backend the open fails, under K' as under K.
C20_WrongKeyReads ==
  [][WroteBlob(last', files, files') =>
       \A g \in OtherKeys(last'.f) :
         LET name == Itoa(last'.id) \o <<"/">> \o last'.name
             o == immutableFS_Open(g, files', store', name)
             own == immutableFS_Open(last'.f, files', store', name)
             blob == files'[BlobPath(last'.contents, g.Owner.Id)]
             first == iv(checksum(last'.contents), g.Owner.Id)
         IN /\ ~o.panic
            /\ o.file = own.file /\ o.err = own.err
            /\ o.file => o.data = CFBDecrypt(g.Owner.Key, first, blob.data)
            /\ last'.contents # <<>> =>
                 /\ o.file /\ o.err = NoErr
                 /\ Len(o.data) = Len(last'.contents)
                 /\ o.info.Size = Len(last'.contents)
                 /\ o.data = last'.contents <=>
                      KeystreamsAgree(last'.f.Owner.Key, g.Owner.Key, first,
                                      blob.data)
            /\ last'.contents = <<>> =>
                 /\ ~o.file
                 /\ o.err = PathError("open", name)]_vars

\* C20's case: content of two bytes was written under one key and reads as
\* other bytes under another.
C20_Witness ==
  /\ last.op = "Write" /\ last.err = NoErr /\ Len(last.contents) = 2
  /\ \E g \in OtherKeys(last.f) :
       LET o == immutableFS_Open(g, files, store, Itoa(last.id) \o <<"/">> \o last.name)
       IN o.file /\ o.data # last.contents

\* C20's failing case: content of one byte reads as itself under another key.
C20_WitnessSameBytes ==
  /\ last.op = "Write" /\ last.err = NoErr /\ Len(last.contents) = 1
  /\ \E g \in OtherKeys(last.f) :
       LET o == immutableFS_Open(g, files, store, Itoa(last.id) \o <<"/">> \o last.name)
       IN o.file /\ o.data = last.contents

\* ------------------------------------------------- encryption at rest

\* Whether a step is a Write that succeeded and put a new blob.
PutBlob(l, before, after) ==
  l.op = "Write" /\ l.err = NoErr /\ l.wrote /\ after # before

\* Whether every key stream byte the encryption that gave ciph used is zero,
\* prev being the block before its first byte.
RECURSIVE ZeroKeystream(_, _, _)
ZeroKeystream(key, prev, ciph) ==
  \/ ciph = <<>>
  \/ /\ Block(key, prev) = 0
     /\ ZeroKeystream(key, Head(ciph), Tail(ciph))

\* C21 as claimed: without a key the stored blob is the plaintext; with a key
\* it is the cipher output and is not equal to the plaintext; the checksum
\* recorded is the hash of the plaintext in both cases.
C21_NotThePlaintext ==
  [][PutBlob(last', files, files') =>
       LET f == last'.f
           c == last'.contents
           blob == files'[BlobPath(c, f.Owner.Id)]
       IN /\ store'[last'.id].Checksum = HexEncode(checksum(c))
          /\ f.Owner.Key.isNil => blob.data = c
          /\ ~f.Owner.Key.isNil =>
               /\ blob.data = CFBEncrypt(f.Owner.Key,
                                         iv(checksum(c), f.Owner.Id), c)
               /\ blob.data # c]_vars

\* C21 as amended: every successful Write records the hash of the plaintext
\* as the checksum.  Without a key the blob it puts is the plaintext; with a
\* key the blob is the CFB encryption of the plaintext under the key and the
\* iv of (checksum, owner): as many bytes as the plaintext, decrypting to it,
\* and equal to the plaintext exactly when every key stream byte used is
\* zero, which is so for the empty plaintext.
C21_AtRest ==
  [][/\ (last'.op = "Write" /\ last'.err = NoErr) =>
          store'[last'.id].Checksum = HexEncode(checksum(last'.contents))
     /\ PutBlob(last', files, files') =>
          LET f == last'.f
              c == last'.contents
              blob == files'[BlobPath(c, f.Owner.Id)]
              first == iv(checksum(c), f.Owner.Id)
          IN /\ f.Owner.Key.isNil => blob.data = c
             /\ ~f.Owner.Key.isNil =>
                  /\ blob.data = CFBEncrypt(f.Owner.Key, first, c)
                  /\ Len(blob.data) = Len(c)
                  /\ CFBDecrypt(f.Owner.Key, first, blob.data) = c
                  /\ blob.data = c <=> ZeroKeystream(f.Owner.Key, first, blob.data)
                  /\ c = <<>> => blob.data = c]_vars

\* C21's case: a Write under a key put a blob of two bytes that is not the
\* plaintext.
C21_Witness ==
  /\ last.op = "Write" /\ last.err = NoErr /\ last.wrote
  /\ ~last.f.Owner.Key.isNil /\ Len(last.contents) = 2
  /\ files[BlobPath(last.contents, last.f.Owner.Id)].data # last.contents

\* C21's failing case: a Write under a key put a blob of one byte that is the
\* plaintext.
C21_WitnessEqual ==
  /\ last.op = "Write" /\ last.err = NoErr /\ last.wrote
  /\ ~last.f.Owner.Key.isNil /\ Len(last.contents) = 1
  /\ files[BlobPath(last.contents, last.f.Owner.Id)].data = last.contents

\* C21's case without a key: the blob is the plaintext of two bytes.
C21_WitnessClear ==
  /\ last.op = "Write" /\ last.err = NoErr /\ last.wrote
  /\ last.f.Owner.Key.isNil /\ Len(last.contents) = 2
  /\ files[BlobPath(last.contents, last.f.Owner.Id)].data = last.contents

\* ------------------------------------------------- dedup across owners

\* The owners other than owner id o that have a blob for contents c.
OthersHolding(fs, c, o) ==
  {q \in Owners : q.Id # o /\ BlobPath(c, q.Id) \in DOMAIN fs}

\* C22, dedup is per owner: a Write by an owner changes no blob but the one at
\* the physical path of (checksum, that owner), so it neither creates nor
\* replaces a blob under another owner's prefix; and a successful Write of
\* content another owner has stored, and this owner has not, records the same
\* checksum as the other owner's Entries and adds exactly one blob, at this
\* owner's own path.
C22_PerOwner ==
  [][last'.op = "Write" =>
       LET f == last'.f
           c == last'.contents
           own == BlobPath(c, f.Owner.Id)
       IN /\ \A p \in DOMAIN files \cup DOMAIN files' :
               p # own => /\ p \in DOMAIN files /\ p \in DOMAIN files'
                          /\ files'[p] = files[p]
          /\ (/\ last'.err = NoErr
              /\ own \notin DOMAIN files
              /\ OthersHolding(files, c, f.Owner.Id) # {})
             => /\ own \in DOMAIN files'
                /\ numFiles(files') = numFiles(files) + 1
                /\ \A i \in 1..Len(store) :
                     (ByWrite(i) /\ written[i].data = c)
                     => store'[last'.id].Checksum = store[i].Checksum]_vars

\* C22's case: owner 2 wrote the content of two bytes that owner 1 had stored,
\* and the backend holds a blob for each.
C22_Witness ==
  /\ last.op = "Write" /\ last.err = NoErr /\ last.id = 2
  /\ store[1].OwnerId = 1 /\ store[2].OwnerId = 2
  /\ written[1] = written[2] /\ Len(written[1].data) = 2
  /\ store[1].Checksum = store[2].Checksum
  /\ numFiles(files) = 2
  /\ files[BlobPath(last.contents, 1)].data = last.contents
  /\ files[BlobPath(last.contents, 2)].data # last.contents

\* ----------------------------------------------------- concurrent callers

\* The facades the goroutines write through: writable, over the in-memory
\* backend and the in-memory store.
ConcurrentFacades == {Facade(o, "fakeFS", "fakeStore", FALSE) : o \in Owners}

ConcurrentContents == {<<>>, <<2, 1>>}

\* The goroutines that are in a call.
InFlight == {g \in Goroutines : calls[g].pc # "idle"}

\* The goroutines that are inside fakeStore.AddEntry: the length is read and
\* the append is not done.
InAddEntry == {g \in Goroutines : calls[g].pc \in {"header", "append"}}

\* The physical path of the blob of the call goroutine g is in.
CallPath(c) == BlobPath(c.contents, c.f.Owner.Id)

\* The Entry immutableFS.Write builds for the call.
CallEntry(c) ==
  [Id |-> c.newId, Name |-> c.name, Size |-> Len(c.contents), Ts |-> c.now,
   OwnerId |-> c.f.Owner.Id, Checksum |-> c.checksum]

\* Goroutine g calls f.Write(name, contents).
Go_Write(g, f, name, contents, now) ==
  /\ last.op = "none"
  /\ calls[g].pc = "idle"
  /\ Len(store) + Cardinality(InFlight) < MaxEntries
  /\ calls' = [calls EXCEPT ![g] = [NoWrite EXCEPT !.pc = "exists", !.f = f,
                                      !.name = name, !.contents = contents,
                                      !.now = now]]
  /\ UNCHANGED <<files, store, written, stored, last, keyBuffer, twin>>

\* aesFS.Write in goroutine g: a.FileSystem.Exists(name), under the lock of
\* the backend.  With the blob there the checksum is returned at once.
Go_Exists(g) ==
  LET c == calls[g]
      there == FS_Exists(c.f.FileSystem, files, CallPath(c))
  IN /\ c.pc = "exists"
     /\ calls' = [calls EXCEPT ![g] =
                    IF there
                    THEN [c EXCEPT !.pc = "length", !.existed = TRUE,
                                   !.checksum = HexEncode(checksum(c.contents))]
                    ELSE [c EXCEPT !.pc = "open"]]
     /\ UNCHANGED <<files, store, written, stored, last, keyBuffer, twin>>

\* writeFile or writeEncrypted in goroutine g: a.FileSystem.Write(name) gives
\* the goroutine a writer of its own; with a key the cipher is built next.
Go_Open(g) ==
  LET c == calls[g]
  IN /\ c.pc = "open"
     /\ calls' = [calls EXCEPT ![g] =
                    IF ~c.f.Owner.Key.isNil /\ ~NewCipherOK(c.f.Owner.Key)
                    THEN [c EXCEPT !.pc = "done", !.err = KeySizeError,
                                   !.writer = fakeFS_Write(CallPath(c))]
                    ELSE [c EXCEPT !.pc = "copy",
                                   !.writer = fakeFS_Write(CallPath(c))]]
     /\ UNCHANGED <<files, store, written, stored, last, keyBuffer, twin>>

\* io.Copy in goroutine g: the contents, encrypted under a key, go to the
\* writer's buffer in one Write; no Write is made for empty contents.
Go_Copy(g) ==
  LET c == calls[g]
      bytes == IF c.f.Owner.Key.isNil THEN c.contents
               ELSE CFBEncrypt(c.f.Owner.Key,
                               iv(checksum(c.contents), c.f.Owner.Id), c.contents)
  IN /\ c.pc = "copy"
     /\ calls' = [calls EXCEPT ![g] =
                    [c EXCEPT !.pc = "close",
                              !.writer = IF bytes = <<>> THEN c.writer
                                         ELSE fakeFSWriter_Write(c.writer, bytes).writer]]
     /\ UNCHANGED <<files, store, written, stored, last, keyBuffer, twin>>

\* The writer's Close in goroutine g: the buffer is put under the lock of the
\* backend, and aesFS.Write returns the checksum.
Go_Close(g) ==
  LET c == calls[g]
      w == Writer_Close(files, c.writer)
  IN /\ c.pc = "close"
     /\ files' = w.files
     /\ stored' = stored \cup {<<HexEncode(checksum(c.contents)), c.f.Owner.Id>>}
     /\ calls' = [calls EXCEPT ![g] =
                    [c EXCEPT !.pc = "length", !.writer = w.writer,
                              !.checksum = HexEncode(checksum(c.contents))]]
     /\ UNCHANGED <<store, written, last, keyBuffer, twin>>

\* fakeStore.AddEntry in goroutine g, its first statement: the length of the
\* slice is read for the new id.  Nothing orders it with the AddEntry of
\* another goroutine.
Go_Length(g) ==
  LET c == calls[g]
  IN /\ c.pc = "length"
     /\ calls' = [h \in Goroutines |->
                    IF h = g
                    THEN [c EXCEPT !.pc = "header", !.newId = fakeStore_newId(store),
                                   !.raced = InAddEntry # {}]
                    ELSE IF h \in InAddEntry THEN [calls[h] EXCEPT !.raced = TRUE]
                    ELSE calls[h]]
     /\ UNCHANGED <<files, store, written, stored, last, keyBuffer, twin>>

\* fakeStore.AddEntry in goroutine g: append reads the slice header.
Go_Header(g) ==
  LET c == calls[g]
  IN /\ c.pc = "header"
     /\ calls' = [calls EXCEPT ![g] = [c EXCEPT !.pc = "append", !.len = Len(store)]]
     /\ UNCHANGED <<files, store, written, stored, last, keyBuffer, twin>>

\* fakeStore.AddEntry in goroutine g: append puts the entry behind the entries
\* of the header it read and the slice becomes the result; Write returns the
\* id.
Go_Append(g) ==
  LET c == calls[g]
  IN /\ c.pc = "append"
     /\ store' = fakeStore_append(store, c.len, CallEntry(c))
     /\ written' = Append(SubSeq(written, 1, c.len), MkBytes(c.contents))
     /\ calls' = [calls EXCEPT ![g] = [c EXCEPT !.pc = "done", !.id = c.newId]]
     /\ UNCHANGED <<files, stored, last, keyBuffer, twin>>

\* The caller in goroutine g has taken the result of its Write.
Go_Return(g) ==
  /\ calls[g].pc = "done"
  /\ calls' = [calls EXCEPT ![g] = NoWrite]
  /\ UNCHANGED <<files, store, written, stored, last, keyBuffer, twin>>

\* Goroutines that call Write on facades over one backend and one store, their
\* steps interleaved in every order.
NextConcurrent ==
  \/ \E g \in Goroutines, f \in ConcurrentFacades, contents \in ConcurrentContents,
        now \in Times :
       Go_Write(g, f, <<"a">>, contents, now)
  \/ \E g \in Goroutines : Go_Exists(g)
  \/ \E g \in Goroutines : Go_Open(g)
  \/ \E g \in Goroutines : Go_Copy(g)
  \/ \E g \in Goroutines : Go_Close(g)
  \/ \E g \in Goroutines : Go_Length(g)
  \/ \E g \in Goroutines : Go_Header(g)
  \/ \E g \in Goroutines : Go_Append(g)
  \/ \E g \in Goroutines : Go_Return(g)

SpecConcurrent == Init /\ [][NextConcurrent]_vars

\* The goroutines whose Write has returned with success.
Returned == {g \in Goroutines : calls[g].pc = "done" /\ calls[g].err = NoErr}

\* Whether the Entry of the call is read back by the id the call returned.
Retrievable(c) ==
  LET e == fakeStore_EntryById(store, c.id, c.f.Owner.Id)
  IN e.err = NoErr /\ e.entry = [CallEntry(c) EXCEPT !.Id = c.id]

\* C23 as claimed: under every interleaving of concurrent Writes that share
\* the in-memory Metadata Store, the calls that succeed return ids different
\* from each other and each Entry is read back by its id.
C23_UniqueIds ==
  \A g \in Returned :
    /\ Retrievable(calls[g])
    /\ \A h \in Returned : h # g => calls[h].id # calls[g].id

\* C23 as amended: every concurrent Write returns with success; a Write whose
\* AddEntry ran with no other AddEntry in progress has its Entry read back by
\* the id it returned, and two such Writes return different ids.  A Write
\* whose AddEntry overlapped another is promised neither.
C23_SerializedIds ==
  /\ \A g \in Goroutines : calls[g].pc = "done" => calls[g].err = NoErr
  /\ \A g \in Returned :
       ~calls[g].raced =>
         /\ calls[g].id = CallEntry(calls[g]).Id
         /\ Retrievable(calls[g])
         /\ \A h \in Returned :
              (h # g /\ ~calls[h].raced) => calls[h].id # calls[g].id

\* C23's case: two Writes have returned, their AddEntry calls one after the
\* other, with ids 1 and 2.
C23_Witness ==
  /\ Returned = Goroutines
  /\ \A g \in Goroutines : ~calls[g].raced
  /\ {calls[g].id : g \in Goroutines} = {1, 2}
  /\ Len(store) = 2

\* C23's failing case: two Writes whose AddEntry calls overlapped have both
\* returned id 1, and the store holds one Entry.
C23_WitnessSameId ==
  /\ Returned = Goroutines
  /\ \A g \in Goroutines : calls[g].raced /\ calls[g].id = 1
  /\ Len(store) = 1

\* The blob a single writer stores for contents c of owner o.
SingleWriterBlob(o, c) ==
  aesFS_Write(Facade(o, "fakeFS", "fakeStore", FALSE), <<>>, c).files[BlobPath(c, o.Id)]

\* The goroutines whose aesFS.Write has returned.
PastContentStore ==
  {g \in Goroutines : calls[g].pc \in {"length", "header", "append", "done"}}

\* C24, the dedup race is harmless: in every state of every interleaving each
\* blob of the backend is the blob a single writer stores for some content and
\* owner at its path, so no partial or mixed blob is visible; and when the
\* Content Store Writes of two goroutines for the same owner and content have
\* returned, whether or not both passed the existence check, both succeeded
\* with the same checksum and the blob at the path is the single writer's.
C24_DedupRace ==
  /\ \A p \in DOMAIN files :
       \E o \in Owners, c \in ConcurrentContents :
         p = BlobPath(c, o.Id) /\ files[p] = SingleWriterBlob(o, c)
  /\ \A g \in PastContentStore :
       /\ calls[g].err = NoErr
       /\ calls[g].checksum = HexEncode(checksum(calls[g].contents))
       /\ CallPath(calls[g]) \in DOMAIN files
       /\ files[CallPath(calls[g])] =
            SingleWriterBlob(calls[g].f.Owner, calls[g].contents)
       /\ \A h \in PastContentStore :
            (/\ calls[h].f.Owner.Id = calls[g].f.Owner.Id
             /\ calls[h].contents = calls[g].contents)
            => calls[h].checksum = calls[g].checksum

\* C24's case: two goroutines wrote the same content of two bytes for the
\* keyed owner, both found no blob and both put one.
C24_Witness ==
  /\ PastContentStore = Goroutines
  /\ \A g \in Goroutines :
       /\ ~calls[g].existed /\ ~calls[g].writer.open
       /\ calls[g].f.Owner.Id = 2 /\ calls[g].contents = <<2, 1>>
       /\ calls[g].err = NoErr

\* ------------------------------------------------- the caller's key buffer

\* The Owner the caller builds from its key buffer: the struct holds the slice
\* it is given, which shares the buffer's bytes.
OwnerOver(buffer) == [Id |-> Owner2.Id, Key |-> MkKey(32, buffer)]

\* The facade NewImmutableFS(fileSystem, store, owner) gave for that Owner, as
\* a call finds it: the owner is stored as passed, so the key a call reads is
\* what the caller's buffer holds at the time of the call.
BufferFacade ==
  FacadeOf(NewImmutableFS("fakeFS", "fakeStore", OwnerOver(keyBuffer)))

\* The caller overwrites its key buffer between two calls.
MutateKey(seed) ==
  /\ last.op = "none"
  /\ seed # keyBuffer
  /\ keyBuffer' = seed
  /\ UNCHANGED <<files, store, written, stored, last, calls, twin>>

\* A caller that keeps using its key buffer after it built the facade from
\* it.
NextAlias ==
  \/ \E contents \in KeyContents, now \in Times :
       Write(BufferFacade, <<"a">>, contents, now)
  \/ \E name \in KeyPaths : Open(BufferFacade, name)
  \/ \E seed \in KeySeeds : MutateKey(seed)
  \/ Return

SpecAlias == Init /\ [][NextAlias]_vars

\* C25 as claimed: the facade keeps a copy of the key taken at construction:
\* whatever the caller does to its buffer, every call uses the key of the
\* construction, every blob is the encryption of its content under that key,
\* and content of at least one byte is read back unchanged.
C25_PrivateCopy ==
  /\ last.op \in {"Write", "Open"} => last.f.Owner.Key = Owner2.Key
  /\ \A i \in 1..Len(store) :
       /\ files[BlobPath(written[i].data, Owner2.Id)].data =
            CFBEncrypt(Owner2.Key, iv(checksum(written[i].data), Owner2.Id),
                       written[i].data)
       /\ (last.op = "Open" /\ last.name = Path(store[i])
           /\ written[i].data # <<>>)
          => last.file /\ last.data = written[i].data

\* C25's failing case: content of two bytes written before the caller changed
\* its buffer was opened after the change and other bytes were read.
C25_WitnessAliased ==
  /\ last.op = "Open" /\ last.file
  /\ keyBuffer # Owner2.Key.seed
  /\ last.f.Owner.Key = MkKey(32, keyBuffer)
  /\ \E i \in 1..Len(store) :
       /\ last.name = Path(store[i])
       /\ Len(written[i].data) = 2
       /\ files[BlobPath(written[i].data, Owner2.Id)].data =
            CFBEncrypt(Owner2.Key, iv(checksum(written[i].data), Owner2.Id),
                       written[i].data)
       /\ last.data # written[i].data

\* ------------------------------------------------- the names a Write takes

\* Names a caller may give to Write: plain ones, one with a separator, the
\* empty name and the two dot names.
WriteNames ==
  {<<"a">>, <<"b">>, <<"a", "/", "b">>, <<>>, <<".">>, <<".", ".">>}

NameContents == {<<>>, <<1>>}

\* Callers that write under any name and open their Entries by Entry.Path.
NextNames ==
  \/ \E f \in ConcurrentFacades, name \in WriteNames, contents \in NameContents,
        now \in Times :
       Write(f, name, contents, now)
  \/ \E f \in ConcurrentFacades : \E i \in 1..Len(store) : Open(f, Path(store[i]))
  \/ Return

SpecNames == Init /\ [][NextNames]_vars

\* Whether a name is one path element: not empty, without a separator, and
\* neither dot name.
OneElement(name) ==
  /\ name # <<>>
  /\ \A k \in 1..Len(name) : name[k] # "/"
  /\ name # <<".">>
  /\ name # <<".", ".">>

\* The Entries of the owner of the last call whose Path the call was given.
PathOf ==
  {i \in 1..Len(store) :
     /\ ByWrite(i)
     /\ store[i].OwnerId = last.f.Owner.Id
     /\ last.name = Path(store[i])}

C26_WitnessSeparator ==
  /\ last.op = "Open" /\ ~last.file
  /\ \E i \in PathOf :
       store[i].Name = <<"a", "/", "b">> /\ Len(written[i].data) = 1

\* --------------------------------------------------- file-info of a file

\* What Stat is to report for Entry i: the Entry's name and timestamp, the
\* length of the content given to the Write that created it, read-only for
\* the owner, not a directory, no system value.
InfoOf(i) ==
  [Name |-> store[i].Name, Size |-> Len(written[i].data), Mode |-> "0400",
   ModTime |-> store[i].Ts, IsDir |-> FALSE, Sys |-> "nil"]

\* C27, file-info of an opened file: whenever Open gives a file, under the
\* key the content was written with or under another, for the keyed owner or
\* the owner without a key, Stat reports the Entry's name, the length of the
\* original content, the Entry's timestamp, mode 0400, no directory and no
\* system value; and every Entry opens with that same file-info in every
\* later state of the store.
C27_FileInfo ==
  /\ (last.op = "Open" /\ last.file) =>
       \E i \in 1..Len(store) :
         /\ store[i].OwnerId = last.f.Owner.Id
         /\ last.name = Path(store[i])
         /\ store[i].Size = Len(written[i].data)
         /\ last.info = InfoOf(i)
  /\ Idle =>
       \A i \in 1..Len(store), g \in KeyedAndClear :
         LET o == ImmutableFS_Open(g, files, store, Path(store[i]))
         IN o.file => o.info = InfoOf(i)

\* C27's case: content of two bytes written at time 200 was opened under
\* another key; the bytes read are not the content and the size reported is
\* the content's.
C27_Witness ==
  /\ last.op = "Open" /\ last.file
  /\ \E i \in 1..Len(store) :
       /\ last.name = Path(store[i])
       /\ Len(written[i].data) = 2
       /\ last.data # written[i].data
       /\ last.info.Size = 2 /\ last.info.ModTime = 200
       /\ last.info.Mode = "0400" /\ ~last.info.IsDir

\* ------------------------------------------------ the dedup short-circuit

\* Facades over the in-memory backend and over ReadOnlyFS around it: owner 1
\* without a key, owner 2 under two keys.
DedupFacades ==
  {Facade(o, k, "fakeStore", FALSE) :
     o \in {Owner1, Owner2, [Id |-> 2, Key |-> MkKey(32, 2)]},
     k \in {"fakeFS", "readOnlyFS"}}

DedupContents == {<<>>, <<1>>, <<2, 1>>}

\* Callers that write the same contents through writable and read-only
\* backends and under different keys.
NextDedup ==
  \/ \E f \in DedupFacades, contents \in DedupContents, now \in Times :
       Write(f, <<"a">>, contents, now)
  \/ Return

SpecDedup == Init /\ [][NextDedup]_vars

\* The bytes a Write through facade f would store for contents c.
WouldStore(f, c) ==
  IF f.Owner.Key.isNil THEN c
  ELSE CFBEncrypt(f.Owner.Key, iv(checksum(c), f.Owner.Id), c)

\* C28, the dedup short-circuit: when the backend reports a blob at the
\* physical path of (checksum, owner), Write succeeds with the checksum of the
\* contents, opens no backend stream and leaves every blob as it is, also
\* over a backend that refuses writes and also when the blob's bytes are not
\* what this call would have stored.
C28_ShortCircuit ==
  [][(/\ last'.op = "Write"
      /\ FS_Exists(last'.f.FileSystem, files,
                   BlobPath(last'.contents, last'.f.Owner.Id)))
       => /\ aesFS_Write(last'.f, files, last'.contents) =
               [id |-> HexEncode(checksum(last'.contents)), err |-> NoErr,
                files |-> files]
          /\ last'.err = NoErr
          /\ store'[last'.id].Checksum = HexEncode(checksum(last'.contents))
          /\ last'.opened = 0
          /\ files' = files]_vars

\* C28's case: a Write through the read-only backend found the blob another
\* key had written, whose bytes are not what this Write would have stored,
\* and succeeded.
C28_Witness ==
  /\ last.op = "Write" /\ last.err = NoErr /\ last.opened = 0
  /\ last.f.FileSystem = "readOnlyFS"
  /\ last.contents # <<>>
  /\ files[BlobPath(last.contents, last.f.Owner.Id)].data #
       WouldStore(last.f, last.contents)

\* The other case: over the read-only backend a Write that finds no blob is
\* refused.
C28_WitnessRefused ==
  /\ last.op = "Write" /\ last.err = ErrReadOnly
  /\ last.f.FileSystem = "readOnlyFS"

\* ------------------------------------------------------- backend streams

\* Owner 2 with a key of a length aes.NewCipher refuses.
ShortKeyOwner == [Id |-> 2, Key |-> MkKey(5, 1)]

\* Facades over the in-memory backend and over a backend whose writers fail
\* to close, for the owner without a key, the owner with one and the owner
\* with a key of a wrong length.
StreamFacades ==
  {Facade(o, k, "fakeStore", FALSE) :
     o \in {Owner1, Owner2, ShortKeyOwner}, k \in {"fakeFS", "closeErrorFS"}}

StreamContents == {<<>>, <<1>>}

NextStreams ==
  \/ \E f \in StreamFacades, contents \in StreamContents, now \in Times :
       Write(f, <<"a">>, contents, now)
  \/ \E f \in StreamFacades, name \in KeyPaths : Open(f, name)
  \/ Return

SpecStreams == Init /\ [][NextStreams]_vars

\* C29 as claimed: when the Close of the backend writer fails, Write returns
\* that error and no id, without a key and with one, and no Entry is added.
C29_CloseErrors ==
  [][(/\ last'.op = "Write"
      /\ last'.f.FileSystem = "closeErrorFS"
      /\ last'.closed = 1)
       => /\ last'.err = errClose
          /\ last'.id = 0
          /\ store' = store]_vars

\* C29's failing case: the Close of the writer failed under a key, and Write
\* returned an id and added the Entry of a blob the backend does not hold.
C29_WitnessDropped ==
  /\ last.op = "Write" /\ last.f.FileSystem = "closeErrorFS"
  /\ ~last.f.Owner.Key.isNil /\ last.closed = 1
  /\ last.err = NoErr /\ last.id = Len(store)
  /\ store[last.id].Checksum = HexEncode(checksum(last.contents))
  /\ BlobPath(last.contents, last.f.Owner.Id) \notin DOMAIN files
  /\ last.contents # <<>>

\* C30 as claimed: every backend stream a Write opened is closed when the
\* Write returns, and so is every stream an Open opened that returns an
\* error.
C30_StreamsClosed ==
  /\ last.op = "Write" => last.closed = last.opened
  /\ (last.op = "Open" /\ ~last.file) => last.closed = last.opened

\* C30's failing case: a Write under a key of a wrong length returned the
\* error of the cipher and left the writer it had opened.
C30_WitnessWriter ==
  /\ last.op = "Write" /\ last.err = KeySizeError
  /\ last.opened = 1 /\ last.closed = 0

\* C30's other failing case: an Open under a key of a wrong length failed and
\* left the reader it had opened.
C30_WitnessReader ==
  /\ last.op = "Open" /\ ~last.file /\ last.err = PathError("open", last.name)
  /\ last.opened = 1 /\ last.closed = 0

\* -------------------------------------------------- referential integrity

\* The Entry at index i of the Metadata Store has its blob visible in the
\* backend, at the physical path of its checksum and owner.
HasBlob(i) ==
  LET p == idToPath(store[i].Checksum, store[i].OwnerId)
  IN ~p.panic /\ FS_Exists("fakeFS", files, p.path)

\* C31 as claimed: in every state reached by Writes, successful or failed,
\* every Entry of the Metadata Store has its blob visible at the physical path
\* of (checksum, owner id), and Open of the Entry's own path on a facade of
\* its owner does not fail.
C31_ReferentialIntegrity ==
  \A i \in 1..Len(store) :
    /\ HasBlob(i)
    /\ Idle =>
         \A f \in Facades :
           f.Owner.Id = store[i].OwnerId =>
             ImmutableFS_Open(f, files, store, Path(store[i])).err = NoErr

\* The referential integrity of C31 for the Entries of contents that are not
\* empty.
ReferentialIntegrityNonEmpty ==
  \A i \in 1..Len(store) : store[i].Size > 0 => HasBlob(i)

\* C31's failing case: a Write of empty contents succeeded and inserted an
\* Entry whose blob the backend does not show.
C31_WitnessNoBlob ==
  /\ last.op = "Write" /\ last.err = NoErr /\ last.contents = <<>>
  /\ store[last.id].Checksum = HexEncode(checksum(<<>>))
  /\ ~HasBlob(last.id)
  /\ ImmutableFS_Open(last.f, files, store, Path(store[last.id])).err
       = PathError("open", Path(store[last.id]))

\* --------------------------------------------------------- the disk backend

\* Facades over the disk backend (NewFS), for the owner without a key, the
\* owner with one and the owner with a key of a length aes.NewCipher refuses.
DiskFacades ==
  {Facade(o, "realFS", "fakeStore", FALSE) : o \in {Owner1, Owner2, ShortKeyOwner}}

DiskContents == {<<>>, <<1>>, <<2, 1>>}

\* Callers of the facades over one directory of the disk backend.
NextDisk ==
  \/ \E f \in DiskFacades, contents \in DiskContents, now \in Times :
       Write(f, <<"a">>, contents, now)
  \/ \E f \in DiskFacades, name \in KeyPaths : Open(f, name)
  \/ Return

SpecDisk == Init /\ [][NextDisk]_vars

\* The contents the callers write in any of the specifications.
AllContents == Contents \cup KeyContents

\* The complete stored forms of contents c for owner id o: the contents as
\* they are for the owner without a key, their encryption under a key of the
\* owner otherwise.
StoredForms(c, o) ==
  IF o = Owner1.Id THEN {c}
  ELSE {CFBEncrypt(MkKey(32, k), iv(checksum(c), o), c) : k \in KeySeeds}

\* The blob visible at path p is the complete stored form of some contents
\* whose checksum and owner give that path.
CompleteBlob(p) ==
  \E c \in AllContents, o \in {Owner1.Id, Owner2.Id} :
    /\ p = BlobPath(c, o)
    /\ files[p].data \in StoredForms(c, o)

\* C32 as claimed: a Content Store Write that returned an error has left no
\* blob visible at the physical path of the contents, and every blob visible
\* in the backend is the complete stored form of contents with its checksum.
\* (The read-only wrapper refuses a Write without calling the Content Store.)
C32_BlobIntegrity ==
  /\ (last.op = "Write" /\ last.err # NoErr /\ ~last.wrote /\ ~last.f.ReadOnly) =>
       ~FS_Exists(last.f.FileSystem, files,
                  BlobPath(last.contents, last.f.Owner.Id))
  /\ \A p \in DOMAIN files : ~files[p].isNil => CompleteBlob(p)

\* C32's failing case: over the disk backend a Write under a key of a wrong
\* length returned the error of the cipher and left an empty file at the
\* physical path of contents that are not empty.
C32_WitnessEmptyFile ==
  /\ last.op = "Write" /\ last.err = KeySizeError /\ last.contents # <<>>
  /\ FS_Exists("realFS", files, BlobPath(last.contents, last.f.Owner.Id))
  /\ files[BlobPath(last.contents, last.f.Owner.Id)].data = <<>>

\* C32's other failing case: a later Write of the same contents under the
\* owner's 32 byte key took the empty file for its blob, succeeded without
\* writing, and the Entry it inserted reads back as no bytes.
C32_WitnessDedup ==
  /\ last.op = "Write" /\ last.err = NoErr /\ last.f.Owner = Owner2
  /\ last.contents # <<>>
  /\ last.opened = 0
  /\ files[BlobPath(last.contents, 2)].data = <<>>
  /\ LET o == ImmutableFS_Open(last.f, files, store, Path(store[last.id]))
     IN o.err = NoErr /\ o.data = <<>>

\* ------------------------------------------------------------- two runs

\* The facades of both owners over the in-memory backend and over the
\* read-only backend around it, sharing one Metadata Store.
TwinFacades ==
  {Facade(o, k, "fakeStore", FALSE) : o \in Owners, k \in {"fakeFS", "readOnlyFS"}}

\* The number of Entries each run's Metadata Store may come to hold.
MaxTwinEntries == 3

\* The first run writes one name and one contents, the second run either of
\* two.
TwinNames == {<<"a">>}

TwinContents == {<<1>>}

TwinContents2 == {<<1>>, <<2, 1>>}

\* The facades the reads are made on.
TwinReaders == {f \in TwinFacades : f.FileSystem = "fakeFS"}

TwinPaths == {Itoa(i) \o <<"/">> \o n : i \in 1..3, n \in Names}

TwinMaps == {IdMap({1, 2}, {}), IdMap({3}, {})}

\* The same f.Write in both runs, at the same time; the second run's call may
\* be given another name and other contents, for one owner.
WriteBoth(f, name, contents, name2, contents2, now) ==
  LET w == ImmutableFS_Write(f, files, store, name, contents, now)
      w2 == ImmutableFS_Write(f, twin.files, twin.store, name2, contents2, now)
      streams == ImmutableFS_Write_Streams(f, files, contents)
      differs == <<name, contents>> # <<name2, contents2>>
  IN /\ last.op = "none"
     /\ Len(store) < MaxTwinEntries
     /\ Len(twin.store) < MaxTwinEntries
     /\ differs => twin.diverged \in {0, f.Owner.Id}
     /\ files' = w.files
     /\ store' = w.store
     /\ written' = IF w.err = NoErr THEN Append(written, MkBytes(contents))
                   ELSE written
     /\ stored' = IF w.wrote
                  THEN stored \cup {<<HexEncode(checksum(contents)), f.Owner.Id>>}
                  ELSE stored
     /\ last' = [NoCall EXCEPT !.op = "Write", !.f = f, !.name = name,
                               !.contents = contents, !.id = w.id, !.err = w.err,
                               !.wrote = w.wrote, !.opened = streams.opened,
                               !.closed = streams.closed]
     /\ twin' = [files |-> w2.files,
                 store |-> w2.store,
                 last |-> [NoCall EXCEPT !.op = "Write", !.f = f, !.name = name2,
                                         !.contents = contents2, !.id = w2.id,
                                         !.err = w2.err, !.wrote = w2.wrote],
                 diverged |-> IF differs THEN f.Owner.Id ELSE twin.diverged,
                 sameOutcomes |-> twin.sameOutcomes /\ w.err = w2.err]
     /\ UNCHANGED <<calls, keyBuffer>>

\* The same f.Open(name) in both runs, the file read to its end.
OpenBoth(f, name) ==
  LET o == ImmutableFS_Open(f, files, store, name)
      o2 == ImmutableFS_Open(f, twin.files, twin.store, name)
  IN /\ last.op = "none"
     /\ last' = [NoCall EXCEPT !.op = "Open", !.f = f, !.name = name,
                               !.err = o.err, !.panic = o.panic, !.file = o.file,
                               !.data = o.data, !.info = o.info]
     /\ twin' = [twin EXCEPT !.last =
                   [NoCall EXCEPT !.op = "Open", !.f = f, !.name = name,
                                  !.err = o2.err, !.panic = o2.panic,
                                  !.file = o2.file, !.data = o2.data,
                                  !.info = o2.info]]
     /\ UNCHANGED <<files, store, written, stored, calls, keyBuffer>>

\* The same f.List(nil, ids) in both runs, each runtime ranging over the map
\* in an order of its own.
ListBoth(f, ids, order, order2) ==
  LET l == ImmutableFS_List(f, store, ids, order)
      l2 == ImmutableFS_List(f, twin.store, ids, order2)
  IN /\ last.op = "none"
     /\ last' = [NoCall EXCEPT !.op = "List", !.f = f, !.ids = ids,
                               !.err = l.err, !.result = l.result,
                               !.looked = l.looked]
     /\ twin' = [twin EXCEPT !.last =
                   [NoCall EXCEPT !.op = "List", !.f = f, !.ids = ids,
                                  !.err = l2.err, !.result = l2.result,
                                  !.looked = l2.looked]]
     /\ UNCHANGED <<files, store, written, stored, calls, keyBuffer>>

\* The callers of both runs have taken the results of their calls.
ReturnBoth ==
  /\ last.op # "none"
  /\ last' = NoCall
  /\ twin' = [twin EXCEPT !.last = NoCall]
  /\ UNCHANGED <<files, store, written, stored, calls, keyBuffer>>

\* Two runs of the same sequence of calls, which differ only in the names and
\* contents one owner's facades write.
NextTwin ==
  \/ \E f \in TwinFacades, name \in TwinNames, name2 \in Names,
        contents \in TwinContents, contents2 \in TwinContents2, now \in Times :
       WriteBoth(f, name, contents, name2, contents2, now)
  \/ \E f \in TwinReaders, name \in TwinPaths : OpenBoth(f, name)
  \/ \E f \in TwinReaders, ids \in TwinMaps :
       \E order, order2 \in Orders(Keys(ids)) : ListBoth(f, ids, order, order2)
  \/ ReturnBoth

SpecTwin == Init /\ [][NextTwin]_vars

\* What a caller sees of the call a run records: the error, whether a file
\* came back, its bytes and file info, the Entries listed.
Seen(l) == <<l.err, l.file, l.data, l.info, l.result>>

\* The last call is a read on a facade of an owner whose own Writes were the
\* same in both runs.
ReadByUnchangedOwner ==
  /\ last.op \in {"Open", "List"}
  /\ last.f.Owner.Id # twin.diverged

\* C33 as claimed: when two runs of the same sequence of calls differ only in
\* the names and contents written by the facades of other owners, every Open
\* and every List on an owner's facade returns the same in both runs.
C33_Noninterference ==
  ReadByUnchangedOwner => Seen(last) = Seen(twin.last)

\* C33 as amended: the same, for runs in which every Write has had the same
\* outcome (the same error or none) in both runs.
C33_SameOutcomes ==
  (ReadByUnchangedOwner /\ twin.sameOutcomes) => Seen(last) = Seen(twin.last)

\* C33's case: the other owner's Writes differed between the runs, each with
\* the same outcome in both, and an Open on this owner's facade returned the
\* same file with the same bytes in both runs.
C33_Witness ==
  /\ ReadByUnchangedOwner /\ twin.sameOutcomes
  /\ twin.diverged # 0
  /\ twin.store # store
  /\ last.op = "Open" /\ last.file /\ last.data # <<>>
  /\ Seen(last) = Seen(twin.last)

\* C33's failing case: the other owner's Write over the read-only backend
\* found its blob in one run and not in the other, the ids of this owner's
\* later Entries differ, and the same path opens a file in one run only.
C33_WitnessIdShift ==
  /\ ReadByUnchangedOwner /\ ~twin.sameOutcomes
  /\ last.op = "Open" /\ last.file # twin.last.file
  /\ Len(store) # Len(twin.store)

\* ------------------------------------------------- spellings of the id

\* The path has two segments and its first segment is a decimal number.
NumberedPath(p) == Cardinality(Slashes(p)) = 1 /\ IsBase10(FirstSegment(p))

\* The path with its first segment spelled as fmt.Sprintf("%d") spells it.
PlainSpelling(p) == Canonical(FirstSegment(p)) \o <<"/">> \o SecondSegment(p)

\* C34 as claimed: Open returns a file only for a path that is, character for
\* character, the Path() of an Entry of the facade's owner.
C34_CanonicalPath ==
  (last.op = "Open" /\ last.file) =>
    \E i \in 1..Len(store) :
      store[i].OwnerId = last.f.Owner.Id /\ last.name = Path(store[i])

\* C34 as amended: Open returns a file only for a path whose first segment
\* spells in decimal, with or without a leading '+' and leading zeros, the id
\* of an Entry of the facade's owner, and whose second segment is that Entry's
\* name; a negative first segment fails as NotFound; and every such spelling
\* opens what the plain spelling opens.
C34_EverySpelling ==
  last.op = "Open" =>
    LET p == last.name
        first == FirstSegment(p)
        plain == ImmutableFS_Open(last.f, files, store, PlainSpelling(p))
    IN /\ last.file =>
            /\ NumberedPath(p) /\ first[1] # "-"
            /\ \E i \in EntriesNamed(Canonical(first), last.f.Owner.Id) :
                 SecondSegment(p) = store[i].Name
       /\ (NumberedPath(p) /\ first[1] = "-") =>
            ~last.file /\ last.err = PathError("open", p)
       /\ (NumberedPath(p) /\ first[1] # "-") =>
            /\ last.file = plain.file
            /\ last.data = plain.data
            /\ last.info = plain.info

\* C34's case: a path that spells the id with a leading '+' opened the
\* Entry's file.
C34_Witness ==
  /\ last.op = "Open" /\ last.file /\ last.data # <<>>
  /\ FirstSegment(last.name) = <<"+", "1">>
  /\ store[1].OwnerId = last.f.Owner.Id
  /\ last.name # Path(store[1])
  /\ last.info.Name = store[1].Name

\* C34's other cases: a path that spells the id with a leading zero opened
\* the Entry's file.
C34_WitnessLeadingZero ==
  /\ last.op = "Open" /\ last.file /\ last.data # <<>>
  /\ FirstSegment(last.name) = <<"0", "1">>

\* A negative first segment was refused while Entry 1 is the owner's, under
\* that name.
C34_WitnessNegative ==
  /\ last.op = "Open" /\ ~last.file
  /\ FirstSegment(last.name) = <<"-", "1">>
  /\ store # <<>> /\ store[1].OwnerId = last.f.Owner.Id
  /\ store[1].Name = SecondSegment(last.name)
  /\ last.err = PathError("open", last.name)

\* ------------------------------------------------------ the Blob Path Codec

\* The characters of the ids given to idToPath: a hex digit, a digit that is
\* also the owner id, a character that is no hex digit, the separator.
CodecChars == {"a", "1", "z", "/"}

\* The length of the longest id given to idToPath.
MaxIdLen == 3

\* The ids given to idToPath: every string of the characters up to the
\* longest length, the empty one and those of one character included.
CodecIds ==
  UNION {[1..n -> CodecChars] : n \in 0..MaxIdLen} \cup {<<"3", "5", "6", "7">>}

\* The owner ids given to idToPath (an int64): one a prefix of another, zero
\* and a negative one.
CodecOwners == {0 - 1, 0, 1, 2, 11}

\* idToPath(id, ownerId) called with an id and an owner id.
IdToPath(id, ownerId) ==
  LET p == idToPath(id, ownerId)
  IN /\ last.op = "none"
     /\ last' = [NoCall EXCEPT !.op = "idToPath", !.checksum = id,
                               !.ownerId = ownerId, !.panic = p.panic,
                               !.path = p.path]
     /\ UNCHANGED <<files, store, written, stored, calls, keyBuffer, twin>>

\* Callers of the codec.
NextCodec ==
  \/ \E id \in CodecIds, ownerId \in CodecOwners : IdToPath(id, ownerId)
  \/ Return

SpecCodec == Init /\ [][NextCodec]_vars

\* C35, the Blob Path Codec: for a checksum of at least two characters with
\* no '/', idToPath(c, o) is "{o}/{first two characters of c}/{c}" (its three
\* segments are the decimal owner id, the first two characters and the
\* checksum); no other pair of checksum and owner id gives the same path; and
\* for a checksum shorter than two characters idToPath panics and returns
\* nothing.
C35_PathCodec ==
  last.op = "idToPath" =>
    LET c == last.checksum
        o == last.ownerId
        parts == Split(last.path)
    IN /\ Len(c) < 2 => last.panic /\ last.path = <<>>
       /\ (Len(c) >= 2 /\ Slashes(c) = {}) =>
            /\ ~last.panic
            /\ Len(parts) = 3
            /\ ParseInt(parts[1]) = [ok |-> TRUE, val |-> o]
            /\ parts[1] = Itoa(o)
            /\ parts[2] = SubSeq(c, 1, 2)
            /\ parts[3] = c
            /\ Len(last.path) = Len(Itoa(o)) + Len(c) + 4
       /\ Len(c) >= 2 =>
            \A c2 \in CodecIds, o2 \in CodecOwners :
              (Len(c2) >= 2 /\ <<c2, o2>> # <<c, o>>) =>
                idToPath(c2, o2).path # last.path

\* C35's case: the path of a checksum that begins with a digit under owner 1,
\* while owner 11 and a checksum sharing its first two characters are among
\* the other pairs.
C35_Witness ==
  /\ last.op = "idToPath" /\ ~last.panic
  /\ last.ownerId = 1 /\ last.checksum = <<"1", "a", "a">>
  /\ last.path = <<"1", "/", "1", "a", "/", "1", "a", "a">>
  /\ <<"1", "a", "z">> \in CodecIds /\ 11 \in CodecOwners

\* The path the repository's test expects.
C35_WitnessTest ==
  /\ last.op = "idToPath" /\ last.ownerId = 1
  /\ last.checksum = <<"3", "5", "6", "7">>
  /\ last.path = <<"1", "/", "3", "5", "/", "3", "5", "6", "7">>

\* C35's other case: a checksum of one character, and the panic.
C35_WitnessPanic ==
  /\ last.op = "idToPath" /\ Len(last.checksum) = 1 /\ last.panic

====
